---- MODULE Spec2Model ----
(***************************************************************************)
(* Payment-confirmation and fulfillment pipeline of afterzin-api.          *)
(*                                                                         *)
(* The model follows internal/pagarme (HandleWebhook, handleOrderPaid,     *)
(* handleChargePaid, processOrderPayment) and internal/repository (the     *)
(* order, ticket, inventory, webhook-event and audit primitives).          *)
(*                                                                         *)
(* Database.  The store is SQLite (cmd main: db.OpenSQLite).  A statement  *)
(* run on the pool (h.db) is one atomic step on the committed database.    *)
(* A transaction (h.db.Begin) is deferred: its first statement, the claim  *)
(* UPDATE, takes the database write lock, which it keeps until Commit or   *)
(* Rollback.  While the lock is held the transaction works on its own copy *)
(* (tx); readers on the pool see the committed database (db); another      *)
(* writer either waits for the lock (its step is not enabled) or gets an   *)
(* error (SQLITE_BUSY), which is one of the statement errors below.        *)
(*                                                                         *)
(* Failures.  Every statement, the gateway call, Begin and Commit can      *)
(* fail; each action draws the failing step from a small set.              *)
(***************************************************************************)
EXTENDS Integers, Sequences, FiniteSets, Bags, TLC

(***************************************************************************)
(* Bounds of the model.                                                    *)
(***************************************************************************)
NumProcs == 2          \* concurrent webhook deliveries (one goroutine each)
InitAvailable == 3     \* lots.available_quantity of the lot at the start
UnitPrice == 100       \* order_items.unit_price, in whole currency units
MaxDocLen == 3         \* longest document handed to sanitizeDocument
MaxDecrement == 2      \* largest n handed to the decrement primitives on their own
MaxPhoneDigits == 10   \* most digits of a number handed to ValidatePhone
MaxSeedTime == 2       \* latest second at which seeds.Run is started

Procs == 1..NumProcs

(***************************************************************************)
(* Catalog and orders as they stand when the notifications arrive.         *)
(* Two ticket types drawn from one lot; two PENDING orders, of one unit and *)
(* of three units (two of one type, one of the other), whose combined      *)
(* quantity exceeds the lot's available units (InitAvailable); and a third *)
(* PENDING order of one item of three units; and a fourth PENDING order of  *)
(* one item of two units, which the lot can serve together with the first. *)
(***************************************************************************)
Orders == {"o1", "o2", "o3", "o4"}
TicketTypes == {"tt1", "tt2"}
Lots == {"l1"}
OrderItemIds == {"i1", "i2", "i3", "i4", "i5"}

\* ticket_types.lot_id
TicketTypeLot == [tt1 |-> "l1", tt2 |-> "l1"]

\* ticket_types.max_quantity: as in the seeded catalog, a type's capacity is
\* below the quantity of the lot it shares with the other types
TicketTypeMax == [t \in TicketTypes |-> InitAvailable - 1]

\* order_items rows, in the order the SELECT returns them
OrderItemsTable ==
  [o1 |-> << [id |-> "i1", ticket_type_id |-> "tt1", quantity |-> 1] >>,
   o2 |-> << [id |-> "i2", ticket_type_id |-> "tt1", quantity |-> 2],
             [id |-> "i3", ticket_type_id |-> "tt2", quantity |-> 1] >>,
   o3 |-> << [id |-> "i4", ticket_type_id |-> "tt2", quantity |-> 3] >>,
   o4 |-> << [id |-> "i5", ticket_type_id |-> "tt2", quantity |-> 2] >>]

RECURSIVE SumQuantity(_)
SumQuantity(items) ==
  IF items = << >> THEN 0 ELSE Head(items).quantity + SumQuantity(Tail(items))

\* orders.total: the sum of quantity * unit price, fixed at checkout
OrderTotal(o) == SumQuantity(OrderItemsTable[o]) * UnitPrice

\* int64(orderTotal * 100): the totals of the model are whole currency units,
\* for which the float64 product is exact
ExpectedAmount(total) == total * 100

\* Remote identifiers the gateway gave the order's payment (CreatePayment)
RemoteOrderId(o) ==
  IF o = "o1" THEN "or_o1" ELSE IF o = "o2" THEN "or_o2"
  ELSE IF o = "o3" THEN "or_o3" ELSE "or_o4"
RemoteChargeId(o) ==
  IF o = "o1" THEN "ch_o1" ELSE IF o = "o2" THEN "ch_o2"
  ELSE IF o = "o3" THEN "ch_o3" ELSE "ch_o4"

(***************************************************************************)
(* Notifications (the parsed WebhookEvent: id, type, data).  A missing key *)
(* of data reads as the empty string, as the Go type assertions do.        *)
(***************************************************************************)
NoData ==
  [has_data |-> FALSE, code |-> "", id |-> "", charge_id |-> "",
   has_order |-> FALSE, order_code |-> "", order_id |-> ""]

OrderPaidData(code, id, charge) ==
  [has_data |-> TRUE, code |-> code, id |-> id, charge_id |-> charge,
   has_order |-> FALSE, order_code |-> "", order_id |-> ""]

ChargePaidData(id, hasOrder, code, orderId) ==
  [has_data |-> TRUE, code |-> "", id |-> id, charge_id |-> "",
   has_order |-> hasOrder, order_code |-> code, order_id |-> orderId]

Notifications ==
  { [id |-> "evt1", type |-> "order.paid",
     data |-> OrderPaidData("o1", "or_o1", "ch_o1")],
    [id |-> "evt2", type |-> "charge.paid",
     data |-> ChargePaidData("ch_o1", TRUE, "o1", "or_o1")],
    [id |-> "evt3", type |-> "order.paid",
     data |-> OrderPaidData("o2", "or_o2", "ch_o2")],
    [id |-> "evt4", type |-> "charge.paid",
     data |-> ChargePaidData("ch_o2", TRUE, "o2", "")],
    [id |-> "evt5", type |-> "order.created",
     data |-> OrderPaidData("o1", "or_o1", "ch_o1")],
    [id |-> "evt6", type |-> "order.paid",
     data |-> OrderPaidData("", "or_o1", "ch_o1")],
    [id |-> "evt7", type |-> "order.paid",
     data |-> OrderPaidData("o3", "or_o3", "ch_o3")],
    [id |-> "evt8", type |-> "order.paid", data |-> NoData],
    [id |-> "evt9", type |-> "charge.paid", data |-> NoData],
    [id |-> "evt10", type |-> "charge.paid",
     data |-> ChargePaidData("ch_o1", FALSE, "", "")],
    [id |-> "evt11", type |-> "charge.paid",
     data |-> ChargePaidData("ch_o1", TRUE, "", "or_o1")],
    [id |-> "evt12", type |-> "order.paid",
     data |-> OrderPaidData("o4", "or_o4", "ch_o4")] }

EventIds == { n.id : n \in Notifications }
NoEvent == [id |-> "", type |-> "", data |-> NoData]

VARIABLES
  db,              \* the committed database
  tx,              \* the open transaction's copy of the database
  lock,            \* the set of processes holding the write lock (at most one)
  settled,         \* gateway: the amount settled for each order's payment
  pc,              \* each delivery's position in HandleWebhook
  event,           \* each delivery's parsed notification
  ticketsCreated,  \* processOrderPayment's local counter
  outcome,         \* how the delivery's handler returned (what it logged)
  response,        \* the HTTP status written, 0 while none
  request,         \* each delivery's HTTP request: method, and whether the body parses
  call             \* a call of one of the package's pure functions

vars == << db, tx, lock, settled, pc, event, ticketsCreated, outcome, response,
           request, request, call >>

(***************************************************************************)
(* internal/repository: each primitive is an operator on a database value  *)
(* d (the committed database, or a transaction's copy of it).              *)
(***************************************************************************)

\* Faulty claim: the UPDATE without its "AND status = 'PENDING'" condition
ClaimAlways(d, orderID) ==
  IF orderID \in DOMAIN d.orders
  THEN [db |-> [d EXCEPT !.orders[orderID].status = "PROCESSING"], claimed |-> TRUE]
  ELSE [db |-> d, claimed |-> FALSE]

\* Faulty claim: the conditional UPDATE with the rows-affected count ignored
ClaimReportTrue(d, orderID) ==
  IF orderID \in DOMAIN d.orders
  THEN [db |-> IF d.orders[orderID].status = "PENDING"
               THEN [d EXCEPT !.orders[orderID].status = "PROCESSING"] ELSE d,
        claimed |-> TRUE]
  ELSE [db |-> d, claimed |-> FALSE]

\* Faulty claim: the UPDATE with the condition "AND status != 'PAID'"
ClaimUnlessPaid(d, orderID) ==
  IF orderID \in DOMAIN d.orders /\ d.orders[orderID].status # "PAID"
  THEN [db |-> [d EXCEPT !.orders[orderID].status = "PROCESSING"], claimed |-> TRUE]
  ELSE [db |-> d, claimed |-> FALSE]

\* UPDATE orders SET status = 'PROCESSING' WHERE id = ? AND status = 'PENDING'
ClaimOrderProcessingTx(d, orderID) ==
  IF orderID \in DOMAIN d.orders /\ d.orders[orderID].status = "PENDING"
  THEN [db |-> [d EXCEPT !.orders[orderID].status = "PROCESSING"], claimed |-> TRUE]
  ELSE [db |-> d, claimed |-> FALSE]

\* Faulty confirmation: the UPDATE with PaymentConfirm's condition,
\* status IN ('PENDING', 'PROCESSING')
ConfirmPendingToo(d, orderID) ==
  IF orderID \in DOMAIN d.orders /\ d.orders[orderID].status \in {"PENDING", "PROCESSING"}
  THEN [db |-> [d EXCEPT !.orders[orderID].status = "PAID"], err |-> FALSE]
  ELSE [db |-> d, err |-> TRUE]

\* Faulty confirmation: no row is updated and no error reported
ConfirmNothing(d, orderID) == [db |-> d, err |-> FALSE]

\* UPDATE orders SET status = 'PAID' WHERE id = ? AND status = 'PROCESSING';
\* sql.ErrNoRows when no row was affected
ConfirmOrderTx(d, orderID) ==
  IF orderID \in DOMAIN d.orders /\ d.orders[orderID].status = "PROCESSING"
  THEN [db |-> [d EXCEPT !.orders[orderID].status = "PAID"], err |-> FALSE]
  ELSE [db |-> d, err |-> TRUE]

\* UPDATE orders SET pagarme_order_id = ? WHERE id = ?
SetOrderPagarmeOrderIDTx(d, orderID, pagarmeOrderID) ==
  IF orderID \in DOMAIN d.orders
  THEN [d EXCEPT !.orders[orderID].pagarme_order_id = pagarmeOrderID]
  ELSE d

\* UPDATE orders SET pagarme_charge_id = ? WHERE id = ?
SetOrderPagarmeChargeIDTx(d, orderID, chargeID) ==
  IF orderID \in DOMAIN d.orders
  THEN [d EXCEPT !.orders[orderID].pagarme_charge_id = chargeID]
  ELSE d

\* SELECT user_id, status, total FROM orders WHERE id = ?
OrderByIDTx(d, id) ==
  [status |-> d.orders[id].status, total |-> d.orders[id].total]

\* SELECT ... FROM order_items WHERE order_id = ?
OrderItemsByOrderIDTx(d, orderID) == OrderItemsTable[orderID]

\* Faulty insert: two rows for the unit
CreateTicketTwice(d, orderItemID) ==
  [d EXCEPT !.tickets[orderItemID] = @ + 2]

\* INSERT INTO tickets (...): one more row referencing the order item
CreateTicketWithIDTx(d, orderItemID) ==
  [d EXCEPT !.tickets[orderItemID] = @ + 1]

\* Faulty increment: the counter is set to n instead of raised by n
SoldSetTo(d, ticketTypeID, n) ==
  [d EXCEPT !.sold[ticketTypeID] = n]

\* Faulty increment: the sold counter is left alone
KeepSold(d, ticketTypeID, n) == d

\* UPDATE ticket_types SET sold_quantity = sold_quantity + ? WHERE id = ?
IncrementTicketTypeSoldTx(d, ticketTypeID, n) ==
  [d EXCEPT !.sold[ticketTypeID] = @ + n]

\* SELECT lot_id FROM ticket_types WHERE id = ?
LotIDByTicketTypeIDTx(d, ticketTypeID) == TicketTypeLot[ticketTypeID]

\* DecrementLotAvailable, on the pool: the same conditional UPDATE, but only the
\* error of Exec is returned; the rows-affected count is not looked at
DecrementLotAvailable(d, lotID, n) ==
  [db |-> IF d.available[lotID] >= n
          THEN [d EXCEPT !.available[lotID] = @ - n] ELSE d,
   err |-> FALSE]

\* Faulty decrement: the condition is evaluated but the counter is not lowered
DecrementCheckOnly(d, lotID, n) ==
  [db |-> d, err |-> d.available[lotID] < n]

\* Faulty decrement: the UPDATE without its "available_quantity >= ?" condition
DecrementUnguarded(d, lotID, n) ==
  [db |-> [d EXCEPT !.available[lotID] = @ - n], err |-> FALSE]

\* Faulty decrement: the conditional UPDATE with the rows-affected count ignored
DecrementUnreported(d, lotID, n) ==
  [db |-> IF d.available[lotID] >= n
          THEN [d EXCEPT !.available[lotID] = @ - n] ELSE d,
   err |-> FALSE]

\* UPDATE lots SET available_quantity = available_quantity - ?
\*   WHERE id = ? AND available_quantity >= ?; sql.ErrNoRows when refused
DecrementLotAvailableTx(d, lotID, n) ==
  IF d.available[lotID] >= n
  THEN [db |-> [d EXCEPT !.available[lotID] = @ - n], err |-> FALSE]
  ELSE [db |-> d, err |-> TRUE]

\* Faulty existence check: the count is not looked at
ExistsUnlessError(d, eventID, err) == ~err

\* SELECT COUNT(*) FROM pagarme_webhook_events WHERE pagarme_event_id = ?;
\* a query error reads as "not received"
PagarmeWebhookEventExists(d, eventID, err) ==
  ~err /\ d.webhook_events[eventID].exists

\* INSERT OR IGNORE INTO pagarme_webhook_events: the row is keyed by the remote
\* event id, so a second insert of the same id changes nothing and is no error
InsertPagarmeWebhookEvent(d, eventID, eventType) ==
  IF d.webhook_events[eventID].exists
  THEN d
  ELSE [d EXCEPT !.webhook_events[eventID] =
          [exists |-> TRUE, event_type |-> eventType, processed |-> FALSE]]

\* UPDATE pagarme_webhook_events SET processed = 1, processed_at = now
\*   WHERE pagarme_event_id = ?
MarkPagarmeWebhookEventProcessedAt(d, eventID) ==
  IF d.webhook_events[eventID].exists
  THEN [d EXCEPT !.webhook_events[eventID].processed = TRUE]
  ELSE d

\* SELECT COUNT(*) FROM pagarme_webhook_events whe JOIN orders o
\*   ON o.pagarme_order_id = whe.pagarme_event_id
\*   OR o.pagarme_charge_id = whe.pagarme_event_id
\*   WHERE o.id = ? AND whe.event_type = ? AND whe.processed = 1
PagarmeWebhookProcessedForOrder(d, orderID, eventType, err) ==
  /\ ~err
  /\ orderID \in DOMAIN d.orders
  /\ \E e \in EventIds :
       /\ d.webhook_events[e].exists
       /\ \/ d.orders[orderID].pagarme_order_id = e
          \/ d.orders[orderID].pagarme_charge_id = e
       /\ d.webhook_events[e].event_type = eventType
       /\ d.webhook_events[e].processed

\* Faulty audit: no row is written
RecordNothing(d, orderID, oldStatus, newStatus, reason) == d

\* INSERT INTO order_status_history (order_id, old_status, new_status, reason, ...)
RecordOrderStatusChange(d, orderID, oldStatus, newStatus, reason) ==
  [d EXCEPT !.history = @ (+) SetToBag({
     [order_id |-> orderID, old_status |-> oldStatus,
      new_status |-> newStatus, reason |-> reason, error |-> FALSE] })]

\* INSERT INTO order_status_history (..., reason, error_message)
RecordOrderStatusChangeWithError(d, orderID, oldStatus, newStatus, reason) ==
  [d EXCEPT !.history = @ (+) SetToBag({
     [order_id |-> orderID, old_status |-> oldStatus,
      new_status |-> newStatus, reason |-> reason, error |-> TRUE] })]

\* Client.GetOrderPaidAmount: the amount settled for the remote order
GetOrderPaidAmount(pagarmeOrderID) ==
  settled[CHOOSE o \in Orders : RemoteOrderId(o) = pagarmeOrderID]

(***************************************************************************)
(* database/sql transactions.                                              *)
(***************************************************************************)
NoTx == [open |-> FALSE]

\* Faulty commit: the transaction's copy is dropped
CommitNothing(committed, working) == committed

\* tx.Commit: the transaction's copy becomes the committed database
TxCommit(committed, working) == working

\* Faulty rollback: the transaction's copy is kept
KeepWorking(committed, working) == working

\* tx.Rollback (deferred in processOrderPayment): the copy is dropped
TxRollback(committed, working) == committed

(***************************************************************************)
(* The state after construction: both orders PENDING with their payment    *)
(* created at the gateway, nothing sold, no notification received.         *)
(***************************************************************************)
InitDB ==
  [orders |-> [o \in Orders |->
     [status |-> "PENDING", total |-> OrderTotal(o),
      pagarme_order_id |-> RemoteOrderId(o),
      pagarme_charge_id |-> RemoteChargeId(o)]],
   tickets |-> [i \in OrderItemIds |-> 0],
   sold |-> [t \in TicketTypes |-> 0],
   available |-> [l \in Lots |-> InitAvailable],
   history |-> EmptyBag,
   webhook_events |-> [e \in EventIds |->
     [exists |-> FALSE, event_type |-> "", processed |-> FALSE]]]

\* What the gateway may report as settled for an order: the expected amount
\* and, for the three-unit order, also 5000 centavos less (25000 for 30000)
SettledAmounts(o) ==
  IF o = "o2"
  THEN { ExpectedAmount(OrderTotal(o)), ExpectedAmount(OrderTotal(o)) - 5000 }
  ELSE { ExpectedAmount(OrderTotal(o)) }

\* No request has been received
NoRequest == [method |-> "", parses |-> FALSE]

\* No pure function is being called
NoCall == [fn |-> "none"]

Init ==
  /\ db = InitDB
  /\ tx = NoTx
  /\ lock = {}
  /\ settled \in { s \in [Orders -> UNION { SettledAmounts(o) : o \in Orders }] :
                     \A o \in Orders : s[o] \in SettledAmounts(o) }
  /\ pc = [p \in Procs |-> "idle"]
  /\ event = [p \in Procs |-> NoEvent]
  /\ ticketsCreated = [p \in Procs |-> 0]
  /\ outcome = [p \in Procs |-> "none"]
  /\ response = [p \in Procs |-> 0]
  /\ request = [p \in Procs |-> NoRequest]
  /\ call = NoCall

(***************************************************************************)
(* Helpers of the handlers.                                                *)
(***************************************************************************)

\* The (orderID, pagarmeOrderID, chargeID) a handler passes on:
\* handleOrderPaid reads data.code, data.id, data.charges[0].id;
\* handleChargePaid reads data.order.code, data.order.id, data.id
HandlerArgs(ev) ==
  IF ev.type = "order.paid"
  THEN [orderID |-> ev.data.code, pagarmeOrderID |-> ev.data.id,
        chargeID |-> ev.data.charge_id]
  ELSE [orderID |-> ev.data.order_code, pagarmeOrderID |-> ev.data.order_id,
        chargeID |-> ev.data.id]

\* The order item that unit number n (from 0) of the issuance loops belongs to
RECURSIVE ItemOfUnit(_, _)
ItemOfUnit(items, n) ==
  IF n < Head(items).quantity THEN Head(items)
  ELSE ItemOfUnit(Tail(items), n - Head(items).quantity)

\* Whether unit number n is the first unit of its item (i = 0 of the inner loop)
RECURSIVE FirstOfItem(_, _)
FirstOfItem(items, n) ==
  IF n < Head(items).quantity THEN n = 0
  ELSE FirstOfItem(Tail(items), n - Head(items).quantity)

\* The delivery ends: the handler returned and the response is written
Finish(p, how, status) ==
  /\ pc' = [pc EXCEPT ![p] = "done"]
  /\ outcome' = [outcome EXCEPT ![p] = how]
  /\ response' = [response EXCEPT ![p] = status]

\* processOrderPayment returns: HandleWebhook goes on to mark the event
Return(p, how) ==
  /\ pc' = [pc EXCEPT ![p] = "mark"]
  /\ outcome' = [outcome EXCEPT ![p] = how]

\* Faulty abort: the transaction is committed instead of rolled back
AbortCommitting(p, w, how) ==
  /\ db' = TxCommit(db, w)
  /\ tx' = NoTx
  /\ lock' = {}
  /\ Return(p, how)

\* processOrderPayment returns without having committed: the deferred
\* tx.Rollback drops the transaction's copy w and frees the write lock
Abort(p, w, how) ==
  /\ db' = TxRollback(db, w)
  /\ tx' = NoTx
  /\ lock' = {}
  /\ Return(p, how)

(***************************************************************************)
(* Requests a delivery may carry: the method, whether the body parses as   *)
(* the notification JSON, and the notification it parses to.               *)
(***************************************************************************)
Requests == [method : {"POST", "GET"}, parses : BOOLEAN, n : Notifications]

\* Well-formed deliveries of the paid notifications of the two orders
PaidRequests ==
  { r \in Requests : r.method = "POST" /\ r.parses
                     /\ r.n.id \in {"evt1", "evt2", "evt3", "evt4"} }

\* Scenario A: well-formed deliveries of the order.paid notification of the
\* order with one item of three units
ScenarioARequests ==
  { r \in Requests : r.method = "POST" /\ r.parses /\ r.n.id = "evt7" }

\* Well-formed deliveries of paid notifications whose payload lacks what the
\* handlers need (evt6: order.paid without code; evt8, evt9: no data; evt10:
\* charge.paid without order; evt11: charge.paid whose order has no code),
\* next to a complete one (evt1)
PayloadRequests ==
  { r \in Requests : /\ r.method = "POST" /\ r.parses
                     /\ r.n.id \in {"evt1", "evt6", "evt8", "evt9", "evt10", "evt11"} }

\* Deliveries of every kind: any method, bodies that do not parse, and the
\* notifications evt1 (paid), evt5 (a type with no handler) and evt6 (paid,
\* without an order code)
IngestRequests ==
  { r \in Requests : r.n.id \in {"evt1", "evt5", "evt6"} }

\* Faulty HandleWebhook: the method is not checked
HandleWebhookAnyMethod(p, requests) ==
  /\ pc[p] = "idle"
  /\ \A q \in Procs : q < p => pc[q] # "idle"
  /\ \E req \in requests, readErr \in BOOLEAN :
       /\ request' = [request EXCEPT ![p] = [method |-> req.method,
                                             parses |-> req.parses]]
       /\ IF ~req.parses
          THEN /\ Finish(p, "rejected_body", 400)
               /\ UNCHANGED event
          ELSE /\ event' = [event EXCEPT ![p] = req.n]
               /\ IF PagarmeWebhookEventExists(db, req.n.id, readErr)
                  THEN Finish(p, "duplicate", 200)
                  ELSE /\ pc' = [pc EXCEPT ![p] = "insert"]
                       /\ UNCHANGED << outcome, response >>
  /\ UNCHANGED << db, tx, lock, settled, ticketsCreated, call >>

(***************************************************************************)
(* HandleWebhook, up to the idempotency check: method, body, parse, and    *)
(* PagarmeWebhookEventExists.  Deliveries are numbered in the order they   *)
(* arrive; requests is the set the delivery's request is drawn from.       *)
(***************************************************************************)
HandleWebhook(p, requests) ==
  /\ pc[p] = "idle"
  /\ \A q \in Procs : q < p => pc[q] # "idle"
  /\ \E req \in requests, readErr \in BOOLEAN :
       /\ request' = [request EXCEPT ![p] = [method |-> req.method,
                                             parses |-> req.parses]]
       /\ IF req.method # "POST"
          THEN /\ Finish(p, "rejected_method", 405)
               /\ UNCHANGED event
          ELSE IF ~req.parses
          THEN /\ Finish(p, "rejected_body", 400)
               /\ UNCHANGED event
          ELSE /\ event' = [event EXCEPT ![p] = req.n]
               /\ IF PagarmeWebhookEventExists(db, req.n.id, readErr)
                  THEN Finish(p, "duplicate", 200)
                  ELSE /\ pc' = [pc EXCEPT ![p] = "insert"]
                       /\ UNCHANGED << outcome, response >>
  /\ UNCHANGED << db, tx, lock, settled, ticketsCreated, call >>

\* Faulty insert step: the error is only logged and the notification dispatched
InsertEventLenient(p) ==
  /\ pc[p] = "insert"
  /\ \E err \in BOOLEAN :
       /\ IF err
          THEN UNCHANGED db
          ELSE /\ lock = {}
               /\ db' = InsertPagarmeWebhookEvent(db, event[p].id, event[p].type)
       /\ pc' = [pc EXCEPT ![p] = "route"]
       /\ UNCHANGED << outcome, response >>
  /\ UNCHANGED << tx, lock, settled, event, ticketsCreated, request, call >>

(***************************************************************************)
(* HandleWebhook: InsertPagarmeWebhookEvent on the pool; an error answers  *)
(* 500 and the notification is not dispatched.                             *)
(***************************************************************************)
InsertEvent(p) ==
  /\ pc[p] = "insert"
  /\ \E err \in BOOLEAN :
       IF err
       THEN /\ Finish(p, "insert_failed", 500)
            /\ UNCHANGED db
       ELSE /\ lock = {}
            /\ db' = InsertPagarmeWebhookEvent(db, event[p].id, event[p].type)
            /\ pc' = [pc EXCEPT ![p] = "route"]
            /\ UNCHANGED << outcome, response >>
  /\ UNCHANGED << tx, lock, settled, event, ticketsCreated, request, call >>

\* Faulty handlers: the payload is not checked for its data, order and code
RouteUnchecked(p) ==
  /\ pc[p] = "route"
  /\ LET ev == event[p]
         a == HandlerArgs(ev)
     IN  \E readErr \in BOOLEAN :
           IF ev.type \notin {"order.paid", "charge.paid"}
           THEN Return(p, "unhandled_type")
           ELSE IF \/ PagarmeWebhookProcessedForOrder(db, a.orderID, "order.paid", readErr)
                   \/ PagarmeWebhookProcessedForOrder(db, a.orderID, "charge.paid", readErr)
           THEN Return(p, "guard_skip")
           ELSE /\ pc' = [pc EXCEPT ![p] = "claim"]
                /\ UNCHANGED outcome
  /\ UNCHANGED << db, tx, lock, settled, event, ticketsCreated, response, request, call >>

\* Faulty switch: a type other than charge.paid is handled as order.paid
RouteDefaultOrderPaid(p) ==
  /\ pc[p] = "route"
  /\ LET ev == IF event[p].type = "charge.paid" THEN event[p]
               ELSE [event[p] EXCEPT !.type = "order.paid"]
         a == HandlerArgs(ev)
     IN  \E readErr \in BOOLEAN :
           IF ~ev.data.has_data
           THEN Return(p, "no_data")
           ELSE IF ev.type = "charge.paid" /\ ~ev.data.has_order
           THEN Return(p, "no_order")
           ELSE IF a.orderID = ""
           THEN Return(p, "no_order_code")
           ELSE IF \/ PagarmeWebhookProcessedForOrder(db, a.orderID, "order.paid", readErr)
                   \/ PagarmeWebhookProcessedForOrder(db, a.orderID, "charge.paid", readErr)
           THEN Return(p, "guard_skip")
           ELSE /\ pc' = [pc EXCEPT ![p] = "claim"]
                /\ UNCHANGED outcome
  /\ UNCHANGED << db, tx, lock, settled, event, ticketsCreated, response, request, call >>

(***************************************************************************)
(* The switch on event.Type with handleOrderPaid / handleChargePaid up to  *)
(* the call of processOrderPayment: payload extraction and the two         *)
(* PagarmeWebhookProcessedForOrder reads (both on the committed database;  *)
(* the processed markers only ever go from 0 to 1, so reading them in one  *)
(* step loses no outcome).                                                 *)
(***************************************************************************)
Route(p) ==
  /\ pc[p] = "route"
  /\ LET ev == event[p]
         a == HandlerArgs(ev)
     IN  \E readErr \in BOOLEAN :
           IF ev.type \notin {"order.paid", "charge.paid"}
           THEN Return(p, "unhandled_type")
           ELSE IF ~ev.data.has_data
           THEN Return(p, "no_data")
           ELSE IF ev.type = "charge.paid" /\ ~ev.data.has_order
           THEN Return(p, "no_order")
           ELSE IF a.orderID = ""
           THEN Return(p, "no_order_code")
           ELSE IF \/ PagarmeWebhookProcessedForOrder(db, a.orderID, "order.paid", readErr)
                   \/ PagarmeWebhookProcessedForOrder(db, a.orderID, "charge.paid", readErr)
           THEN Return(p, "guard_skip")
           ELSE /\ pc' = [pc EXCEPT ![p] = "claim"]
                /\ UNCHANGED outcome
  /\ UNCHANGED << db, tx, lock, settled, event, ticketsCreated, response, request, call >>

(***************************************************************************)
(* processOrderPayment: h.db.Begin and step 1, ClaimOrderProcessingTx.     *)
(* The UPDATE takes the write lock; when it claims nothing the function    *)
(* returns at once and the deferred Rollback frees the lock again.         *)
(***************************************************************************)
BeginClaim(p) ==
  /\ pc[p] = "claim"
  /\ LET a == HandlerArgs(event[p])
     IN  \E fail \in {"none", "begin", "claim"} :
           IF fail # "none"
           THEN /\ Return(p, "claim_error")
                /\ UNCHANGED << tx, lock >>
           ELSE /\ lock = {}
                /\ LET r == ClaimOrderProcessingTx(db, a.orderID)
                   IN  IF r.claimed
                       THEN /\ tx' = r.db
                            /\ lock' = {p}
                            /\ pc' = [pc EXCEPT ![p] = "validate"]
                            /\ UNCHANGED outcome
                       ELSE /\ Return(p, "not_claimed")
                            /\ UNCHANGED << tx, lock >>
  /\ UNCHANGED << db, settled, event, ticketsCreated, response, request, call >>

(***************************************************************************)
(* processOrderPayment steps 2 to 5: save the remote ids, read the order,  *)
(* validate the settled amount, read the items.                            *)
(***************************************************************************)
Validate(p) ==
  /\ pc[p] = "validate"
  /\ lock = {p}
  /\ LET a  == HandlerArgs(event[p])
         w1 == IF a.pagarmeOrderID # ""
               THEN SetOrderPagarmeOrderIDTx(tx, a.orderID, a.pagarmeOrderID)
               ELSE tx
         w2 == IF a.chargeID # ""
               THEN SetOrderPagarmeChargeIDTx(w1, a.orderID, a.chargeID)
               ELSE w1
         order == OrderByIDTx(w2, a.orderID)
         items == OrderItemsByOrderIDTx(w2, a.orderID)
     IN  \E fail \in {"none", "set_order_id", "set_charge_id", "order_by_id",
                      "gateway", "audit", "commit", "items"} :
           CASE fail = "set_order_id" ->
                  /\ a.pagarmeOrderID # ""
                  /\ Abort(p, tx, "aborted")
             [] fail = "set_charge_id" ->
                  /\ a.chargeID # ""
                  /\ Abort(p, w1, "aborted")
             [] fail = "order_by_id" ->
                  Abort(p, w2, "aborted")
             [] fail = "gateway" ->
                  /\ a.pagarmeOrderID # ""
                  /\ Abort(p, RecordOrderStatusChangeWithError(w2, a.orderID,
                             order.status, "FRAUD_ALERT", "payment_validation_failed"),
                           "gateway_failed")
             [] OTHER ->
                  IF /\ a.pagarmeOrderID # ""
                     /\ GetOrderPaidAmount(a.pagarmeOrderID) # ExpectedAmount(order.total)
                  THEN \* the audit insert's and Commit's results are ignored
                       /\ fail \in {"none", "audit", "commit"}
                       /\ LET w3 == IF fail = "audit" THEN w2
                                    ELSE RecordOrderStatusChange(w2, a.orderID,
                                           order.status, "FRAUD_ALERT", "amount_mismatch")
                          IN  db' = IF fail = "commit" THEN TxRollback(db, w3)
                                    ELSE TxCommit(db, w3)
                       /\ tx' = NoTx
                       /\ lock' = {}
                       /\ Return(p, IF fail = "none" THEN "fraud" ELSE "fraud_failed")
                  ELSE IF fail = "items"
                  THEN Abort(p, w2, "aborted")
                  ELSE /\ fail = "none"
                       /\ tx' = w2
                       /\ pc' = [pc EXCEPT ![p] =
                                   IF SumQuantity(items) = 0 THEN "confirm" ELSE "issue"]
                       /\ UNCHANGED << db, lock, outcome >>
  /\ UNCHANGED << settled, event, ticketsCreated, response, request, call >>

(***************************************************************************)
(* processOrderPayment step 6, one pass of the inner loop: the lookups of  *)
(* the item (at its first unit), the ticket insert, the sold increment,    *)
(* the lot lookup and the conditional decrement of the lot.  The local     *)
(* ticketsCreated is gone when the function returns.                       *)
(***************************************************************************)
IssueUnit(p) ==
  /\ pc[p] = "issue"
  /\ lock = {p}
  /\ LET a     == HandlerArgs(event[p])
         items == OrderItemsByOrderIDTx(tx, a.orderID)
         n     == ticketsCreated[p]
         item  == ItemOfUnit(items, n)
         w1    == CreateTicketWithIDTx(tx, item.id)
         w2    == IncrementTicketTypeSoldTx(w1, item.ticket_type_id, 1)
         lotID == LotIDByTicketTypeIDTx(w2, item.ticket_type_id)
         r     == DecrementLotAvailableTx(w2, lotID, 1)
         gone  == [ticketsCreated EXCEPT ![p] = 0]
     IN  \E fail \in {"none", "lookup", "ticket", "sold", "lot", "decrement"} :
           CASE fail = "lookup" ->
                  /\ FirstOfItem(items, n)
                  /\ Abort(p, tx, "aborted")
                  /\ ticketsCreated' = gone
             [] fail = "ticket" ->
                  /\ Abort(p, tx, "aborted")
                  /\ ticketsCreated' = gone
             [] fail = "sold" ->
                  /\ Abort(p, w1, "aborted")
                  /\ ticketsCreated' = gone
             [] fail \in {"lot", "decrement"} ->
                  /\ Abort(p, w2, "aborted")
                  /\ ticketsCreated' = gone
             [] OTHER ->
                  IF r.err
                  THEN /\ Abort(p, r.db, "inventory_exhausted")
                       /\ ticketsCreated' = gone
                  ELSE /\ tx' = r.db
                       /\ ticketsCreated' = [ticketsCreated EXCEPT ![p] = n + 1]
                       /\ pc' = [pc EXCEPT ![p] =
                                   IF n + 1 = SumQuantity(items)
                                   THEN "confirm" ELSE "issue"]
                       /\ UNCHANGED << db, lock, outcome >>
  /\ UNCHANGED << settled, event, response, request, call >>

(***************************************************************************)
(* processOrderPayment steps 7 to 9: ConfirmOrderTx, the best-effort audit *)
(* row, Commit.                                                            *)
(***************************************************************************)
Confirm(p) ==
  /\ pc[p] = "confirm"
  /\ lock = {p}
  /\ LET a == HandlerArgs(event[p])
         r == ConfirmOrderTx(tx, a.orderID)
     IN  \E fail \in {"none", "confirm", "audit", "commit"} :
           IF fail = "confirm" \/ r.err
           THEN Abort(p, r.db, "aborted")
           ELSE LET w == IF fail = "audit" THEN r.db
                         ELSE RecordOrderStatusChange(r.db, a.orderID,
                                "PROCESSING", "PAID", "webhook_payment_confirmed")
                IN  IF fail = "commit"
                    THEN Abort(p, w, "aborted")
                    ELSE /\ db' = TxCommit(db, w)
                         /\ tx' = NoTx
                         /\ lock' = {}
                         /\ Return(p, "paid")
  /\ ticketsCreated' = [ticketsCreated EXCEPT ![p] = 0]
  /\ UNCHANGED << settled, event, response, request, call >>

\* Faulty end of HandleWebhook: a failure to set the marker is answered 500
MarkProcessedOrFail(p) ==
  /\ pc[p] = "mark"
  /\ \E err \in BOOLEAN :
       IF err
       THEN /\ UNCHANGED db
            /\ Finish(p, "handled", 500)
       ELSE /\ lock = {}
            /\ db' = MarkPagarmeWebhookEventProcessedAt(db, event[p].id)
            /\ Finish(p, "handled", 200)
  /\ UNCHANGED << tx, lock, settled, event, ticketsCreated, request, call >>

(***************************************************************************)
(* HandleWebhook: MarkPagarmeWebhookEventProcessedAt on the pool (an error *)
(* is only logged), then 200.  The handler's locals are gone by now.       *)
(***************************************************************************)
MarkProcessed(p) ==
  /\ pc[p] = "mark"
  /\ \E err \in BOOLEAN :
       IF err
       THEN UNCHANGED db
       ELSE /\ lock = {}
            /\ db' = MarkPagarmeWebhookEventProcessedAt(db, event[p].id)
  /\ Finish(p, "handled", 200)
  /\ UNCHANGED << tx, lock, settled, event, ticketsCreated, request, call >>

Next ==
  \E p \in Procs :
    \/ HandleWebhook(p, PaidRequests)
    \/ InsertEvent(p)
    \/ Route(p)
    \/ BeginClaim(p)
    \/ Validate(p)
    \/ IssueUnit(p)
    \/ Confirm(p)
    \/ MarkProcessed(p)

Spec == Init /\ [][Next]_vars

(***************************************************************************)
(* What the properties below observe of a database value d and of the      *)
(* deliveries.                                                             *)
(***************************************************************************)
RECURSIVE SumOver(_, _)
SumOver(f, S) ==
  IF S = {} THEN 0
  ELSE LET x == CHOOSE y \in S : TRUE IN f[x] + SumOver(f, S \ {x})

\* Every order_items row
AllItems ==
  UNION { { OrderItemsTable[o][k] : k \in DOMAIN OrderItemsTable[o] } : o \in Orders }

\* The purchased units of an order
Quantity(o) == SumQuantity(OrderItemsTable[o])

\* COUNT of the tickets rows of an order's items
TicketsOfOrder(d, o) ==
  LET S == { OrderItemsTable[o][k] : k \in DOMAIN OrderItemsTable[o] }
  IN  SumOver([it \in S |-> d.tickets[it.id]], S)

\* COUNT of the tickets rows of a ticket type
TicketsOfType(d, t) ==
  LET S == { it \in AllItems : it.ticket_type_id = t }
  IN  SumOver([it \in S |-> d.tickets[it.id]], S)

\* COUNT of the tickets rows whose ticket type draws on a lot
TicketsFromLot(d, l) ==
  LET S == { it \in AllItems : TicketTypeLot[it.ticket_type_id] = l }
  IN  SumOver([it \in S |-> d.tickets[it.id]], S)

\* COUNT of the order_status_history rows of an order with a reason
HistoryRows(d, o, reason) ==
  LET S == { r \in BagToSet(d.history) : r.order_id = o /\ r.reason = reason }
  IN  SumOver([r \in S |-> CopiesIn(r, d.history)], S)

\* The counters have moved once per ticket row: each lot was debited, and each
\* ticket type credited, by exactly the tickets that exist
CountersMatchTickets(d) ==
  /\ \A l \in Lots : d.available[l] = InitAvailable - TicketsFromLot(d, l)
  /\ \A t \in TicketTypes : d.sold[t] = TicketsOfType(d, t)

\* The order id the delivery's handler passes to processOrderPayment
OrderOf(p) == HandlerArgs(event[p]).orderID

\* The delivery's run of processOrderPayment has returned with this result
Returned(p, results) == pc[p] = "mark" /\ outcome[p] \in results

\* The delivery's run is between its successful claim and its Commit/Rollback
InTx(p) == pc[p] \in {"validate", "issue", "confirm"}

\* The delivery's ClaimOrderProcessingTx call has returned true
Claimed(p) ==
  \/ InTx(p)
  \/ Returned(p, {"paid", "fraud", "fraud_failed", "gateway_failed",
                  "aborted", "inventory_exhausted"})

\* The switch of HandleWebhook has called the delivery's handler
Routed(p) ==
  \/ pc[p] \in {"claim", "validate", "issue", "confirm", "mark"}
  \/ pc[p] = "done" /\ outcome[p] = "handled"

\* The step ends the delivery's claimed run without a commit
AbortStep(p, results) ==
  /\ InTx(p)
  /\ pc'[p] = "mark"
  /\ outcome'[p] \in results

\* The paid notifications whose payload names the order
NotificationsOfOrder(o) ==
  { n \in Notifications : /\ n.type \in {"order.paid", "charge.paid"}
                          /\ HandlerArgs(n).orderID = o }

\* A notification for the order, other than eventID, has been handled and its
\* row marked processed
OtherEventProcessed(d, o, eventID) ==
  \E n \in NotificationsOfOrder(o) :
    /\ n.id # eventID
    /\ d.webhook_events[n.id].exists
    /\ d.webhook_events[n.id].processed

(***************************************************************************)
(* The package's pure functions.  A Go string is the sequence of its       *)
(* characters; an error value is its text, NoError is nil.                 *)
(***************************************************************************)
AllowedPaymentMethod == "pix"

NoError == "nil"

\* Faulty validation: only the empty method is refused
ValidateNonEmpty(method) ==
  IF method = ""
  THEN "metodo de pagamento nao pode estar vazio"
  ELSE NoError

ValidatePaymentMethod(method) ==
  IF method = ""
  THEN "metodo de pagamento nao pode estar vazio"
  ELSE IF method # AllowedPaymentMethod
  THEN "metodo de pagamento invalido"
  ELSE NoError

\* The class \d of Go's regexp: the ASCII digits
AsciiDigits == {"0", "1", "2", "3", "4", "5", "6", "7", "8", "9"}

\* Faulty sanitizer: only the separators of a formatted CPF/CNPJ are removed
RECURSIVE StripSeparators(_)
StripSeparators(doc) ==
  IF doc = << >>
  THEN << >>
  ELSE (IF Head(doc) \in {".", "-", "/"} THEN << >> ELSE << Head(doc) >>)
         \o StripSeparators(Tail(doc))

\* regexp `[^\d]` ReplaceAllString(doc, ""): every character that is not an
\* ASCII digit is replaced by nothing, the others are copied in order
RECURSIVE sanitizeDocument(_)
sanitizeDocument(doc) ==
  IF doc = << >>
  THEN << >>
  ELSE (IF Head(doc) \in AsciiDigits THEN << Head(doc) >> ELSE << >>)
         \o sanitizeDocument(Tail(doc))

\* The methods the function is called with
Methods == {"pix", "", "credit_card", "boleto", "voucher", "unknown", "PIX", "pix "}

\* The characters of the documents, and the documents of up to MaxDocLen of them
DocChars == {"0", "9", ".", " ", "a"}
Docs == UNION { [1..n -> DocChars] : n \in 0..MaxDocLen }

CallValidatePaymentMethod ==
  /\ \E method \in Methods :
       call' = [fn |-> "ValidatePaymentMethod", arg |-> method,
                ret |-> ValidatePaymentMethod(method)]
  /\ UNCHANGED << db, tx, lock, settled, pc, event, ticketsCreated, outcome,
                  response, request >>

CallSanitizeDocument ==
  /\ \E doc \in Docs :
       call' = [fn |-> "sanitizeDocument", arg |-> doc,
                ret |-> sanitizeDocument(doc)]
  /\ UNCHANGED << db, tx, lock, settled, pc, event, ticketsCreated, outcome,
                  response, request >>

\* The function applied to its own result
CallSanitizeDocumentAgain ==
  /\ call.fn = "sanitizeDocument"
  /\ call' = [fn |-> "sanitizeDocument", arg |-> call.ret,
              ret |-> sanitizeDocument(call.ret)]
  /\ UNCHANGED << db, tx, lock, settled, pc, event, ticketsCreated, outcome,
                  response, request >>

\* The decrement primitives called on a lot with any available count
CallDecrementLotAvailable ==
  /\ \E l \in Lots, a \in 0..InitAvailable, n \in 1..MaxDecrement :
       LET d == [InitDB EXCEPT !.available[l] = a]
       IN  call' = [fn |-> "DecrementLotAvailable", db |-> d, lotID |-> l,
                    n |-> n, ret |-> DecrementLotAvailable(d, l, n)]
  /\ UNCHANGED << db, tx, lock, settled, pc, event, ticketsCreated, outcome,
                  response, request >>

CallDecrementLotAvailableTx ==
  /\ \E l \in Lots, a \in 0..InitAvailable, n \in 1..MaxDecrement :
       LET d == [InitDB EXCEPT !.available[l] = a]
       IN  call' = [fn |-> "DecrementLotAvailableTx", db |-> d, lotID |-> l,
                    n |-> n, ret |-> DecrementLotAvailableTx(d, l, n)]
  /\ UNCHANGED << db, tx, lock, settled, pc, event, ticketsCreated, outcome,
                  response, request >>

NextPure ==
  \/ CallValidatePaymentMethod
  \/ CallSanitizeDocument
  \/ CallSanitizeDocumentAgain
  \/ CallDecrementLotAvailable
  \/ CallDecrementLotAvailableTx

SpecPure == Init /\ [][NextPure]_vars

(***************************************************************************)
(* The endpoint under deliveries of every kind (rejected requests, types   *)
(* with no handler, payloads without an order code, paid notifications).   *)
(***************************************************************************)
NextIngest ==
  \E p \in Procs :
    \/ HandleWebhook(p, IngestRequests)
    \/ InsertEvent(p)
    \/ Route(p)
    \/ BeginClaim(p)
    \/ Validate(p)
    \/ IssueUnit(p)
    \/ Confirm(p)
    \/ MarkProcessed(p)

SpecIngest == Init /\ [][NextIngest]_vars

(***************************************************************************)
(* Scenario A: only the three-unit order's notification is delivered.      *)
(***************************************************************************)
NextScenarioA ==
  \E p \in Procs :
    \/ HandleWebhook(p, ScenarioARequests)
    \/ InsertEvent(p)
    \/ Route(p)
    \/ BeginClaim(p)
    \/ Validate(p)
    \/ IssueUnit(p)
    \/ Confirm(p)
    \/ MarkProcessed(p)

SpecScenarioA == Init /\ [][NextScenarioA]_vars

(***************************************************************************)
(* ConfirmOrderTx on its own, called on the initial database with the      *)
(* order put in any status, next to the pipeline of Scenario A, where it   *)
(* is called by processOrderPayment.                                       *)
(***************************************************************************)
OrderStatuses == {"PENDING", "PROCESSING", "PAID", "CANCELLED", "FRAUD_ALERT"}

CallConfirmOrderTx ==
  /\ \E o \in Orders, s \in OrderStatuses :
       LET d == [InitDB EXCEPT !.orders[o].status = s]
       IN  call' = [fn |-> "ConfirmOrderTx", db |-> d, orderID |-> o,
                    ret |-> ConfirmOrderTx(d, o)]
  /\ UNCHANGED << db, tx, lock, settled, pc, event, ticketsCreated, outcome,
                  response, request >>

NextConfirm ==
  \/ CallConfirmOrderTx
  \/ \E p \in Procs :
       \/ HandleWebhook(p, ScenarioARequests)
       \/ InsertEvent(p)
       \/ Route(p)
       \/ BeginClaim(p)
       \/ Validate(p)
       \/ IssueUnit(p)
       \/ Confirm(p)
       \/ MarkProcessed(p)

SpecConfirm == Init /\ [][NextConfirm]_vars

(***************************************************************************)
(* The endpoint under paid notifications with incomplete payloads.         *)
(***************************************************************************)
NextPayloads ==
  \E p \in Procs :
    \/ HandleWebhook(p, PayloadRequests)
    \/ InsertEvent(p)
    \/ Route(p)
    \/ BeginClaim(p)
    \/ Validate(p)
    \/ IssueUnit(p)
    \/ Confirm(p)
    \/ MarkProcessed(p)

SpecPayloads == Init /\ [][NextPayloads]_vars

\* The orders, tickets, counters and audit rows are the same in both databases
SameBusinessState(d, e) == d = [e EXCEPT !.webhook_events = d.webhook_events]

\* The delivery's request was rejected before its notification was looked at
Rejected(p) ==
  /\ pc[p] # "idle"
  /\ request[p].method # "POST" \/ ~request[p].parses

\* The order's committed status is final: PAID, or the fraud status
FinalStatus(d, o) == d.orders[o].status \in {"PAID", "FRAUD_ALERT"}

\* The tickets rows of the order's items, item by item
TicketRowsOfOrder(d, o) ==
  [k \in DOMAIN OrderItemsTable[o] |-> d.tickets[OrderItemsTable[o][k].id]]

\* The database as the pipeline's statements see it: the open transaction's
\* copy while a run holds it, the committed database otherwise
Current == IF lock # {} THEN tx ELSE db

(***************************************************************************)
(* C1.  Two or more deliveries of the same notification for an order never *)
(* issue the order twice: in every state the order has either no ticket or *)
(* exactly one ticket per purchased unit, it has them exactly when it is   *)
(* PAID, every lot has been debited exactly once per ticket, and as soon   *)
(* as one of the deliveries has fulfilled the order it is PAID with one    *)
(* ticket per unit.                                                        *)
(***************************************************************************)
C1_SameNotificationFulfilsOnce ==
  \A p, q \in Procs :
    (p # q /\ event[p] # NoEvent /\ event[p] = event[q] /\ OrderOf(p) \in Orders) =>
      LET o == OrderOf(p)
      IN  /\ TicketsOfOrder(db, o) \in {0, Quantity(o)}
          /\ (db.orders[o].status = "PAID") <=> (TicketsOfOrder(db, o) = Quantity(o))
          /\ \A l \in Lots : db.available[l] = InitAvailable - TicketsFromLot(db, l)
          /\ (Returned(p, {"paid"})
                => db.orders[o].status = "PAID")

\* Two concurrent deliveries of one notification: one fulfilled the order, the
\* other lost the claim, and the lot was debited by the order's quantity
C1_Witness ==
  \E p, q \in Procs :
    /\ p # q /\ event[p] # NoEvent /\ event[p] = event[q]
    /\ OrderOf(p) \in Orders
    /\ settled[OrderOf(p)] = ExpectedAmount(OrderTotal(OrderOf(p)))
    /\ Returned(p, {"paid"})
    /\ Returned(q, {"not_claimed"})
    /\ TicketsOfOrder(db, OrderOf(p)) = Quantity(OrderOf(p))
    /\ db.available["l1"] = InitAvailable - Quantity(OrderOf(p))

(***************************************************************************)
(* C2.  An order.paid delivery followed by a charge.paid delivery (another *)
(* event id) of the same order fulfil it at most once: the order never has *)
(* more than one ticket per purchased unit, the sold and the available     *)
(* counters have moved exactly once per ticket, and once both deliveries   *)
(* have been handled with the order PAID it has exactly one ticket per     *)
(* unit.                                                                   *)
(***************************************************************************)
C2_OrderPaidThenChargePaid ==
  \A p, q \in Procs :
    (/\ p < q
     /\ event[p].type = "order.paid" /\ event[q].type = "charge.paid"
     /\ OrderOf(p) \in Orders /\ OrderOf(p) = OrderOf(q)) =>
      LET o == OrderOf(p)
      IN  /\ TicketsOfOrder(db, o) <= Quantity(o)
          /\ CountersMatchTickets(db)
          /\ (Returned(p, {"paid"}) \/ Returned(q, {"paid"})
                => /\ db.orders[o].status = "PAID"
                   /\ TicketsOfOrder(db, o) = Quantity(o))
          /\ (pc[p] = "done" /\ pc[q] = "done" /\ db.orders[o].status = "PAID"
                => TicketsOfOrder(db, o) = Quantity(o))

\* order.paid fulfilled the three-unit order; charge.paid for the same order
\* was routed after it and lost the claim; both counters moved by three
C2_Witness ==
  \E p, q \in Procs :
    /\ p < q
    /\ event[p].type = "order.paid" /\ event[q].type = "charge.paid"
    /\ OrderOf(p) = "o2" /\ OrderOf(q) = "o2"
    /\ pc[p] = "done" /\ outcome[p] = "handled"
    /\ Returned(q, {"not_claimed"})
    /\ db.orders["o2"].status = "PAID"
    /\ TicketsOfOrder(db, "o2") = Quantity("o2")
    /\ db.sold["tt1"] + db.sold["tt2"] = Quantity("o2")
    /\ db.available["l1"] = InitAvailable - Quantity("o2")

C4_AvailableNeverNegative ==
  \A l \in Lots :
    /\ db.available[l] >= 0
    /\ lock # {} => tx.available[l] >= 0

\* A run was refused by the conditional decrement with the lot at zero
C4_Witness ==
  \E p \in Procs :
    /\ Returned(p, {"inventory_exhausted"})
    /\ db.available["l1"] = 0

(***************************************************************************)
(* C5.  With the orders' combined quantity above the lot's available       *)
(* units, no more tickets drawn from the lot than it had units ever exist  *)
(* (committed or in the transaction in flight), and a run that the lot     *)
(* could not serve leaves nothing behind: its order has no ticket, is not  *)
(* PAID, and the available and sold counters account for exactly the       *)
(* tickets of the other orders.                                            *)
(***************************************************************************)
C5_NoOversell ==
  /\ \A l \in Lots :
       /\ TicketsFromLot(db, l) <= InitAvailable
       /\ lock # {} => TicketsFromLot(tx, l) <= InitAvailable
  /\ \A p \in Procs :
       Returned(p, {"inventory_exhausted"}) =>
         /\ TicketsOfOrder(db, OrderOf(p)) = 0
         /\ db.orders[OrderOf(p)].status # "PAID"
         /\ CountersMatchTickets(db)

\* The three-unit order took every unit of the lot; the run of the one-unit
\* order was refused, and the lot's tickets are those of the first order
C5_Witness ==
  \E p, q \in Procs :
    /\ OrderOf(p) = "o2" /\ OrderOf(q) = "o1"
    /\ db.orders["o2"].status = "PAID"
    /\ Returned(q, {"inventory_exhausted"})
    /\ TicketsFromLot(db, "l1") = InitAvailable
    /\ TicketsOfOrder(db, "o1") = 0

(***************************************************************************)
(* C6.  After a run that claimed the order and found the settled amount    *)
(* different from the expected total, the order's committed status is the  *)
(* fraud state FRAUD_ALERT.                                                *)
(***************************************************************************)
C6_MismatchCommitsFraudStatus ==
  \A p \in Procs :
    Returned(p, {"fraud"}) => db.orders[OrderOf(p)].status = "FRAUD_ALERT"

C8_FailureLeavesNothing ==
  [][\A p \in Procs :
       AbortStep(p, {"aborted", "inventory_exhausted"}) =>
         /\ db'.tickets = db.tickets
         /\ db'.sold = db.sold
         /\ db'.available = db.available
         /\ TicketsOfOrder(db', OrderOf(p)) = 0
         /\ tx' = NoTx
    ]_vars

\* With the one-unit order fulfilled, a run of the three-unit order was
\* refused its third unit after it had issued two inside its transaction: the
\* lot still has those two units, and no ticket of the order is visible
C8_Witness ==
  \E p \in Procs :
    /\ Returned(p, {"inventory_exhausted"})
    /\ OrderOf(p) = "o2"
    /\ TicketsOfOrder(db, "o2") = 0
    /\ db.sold = [t \in TicketTypes |-> IF t = "tt1" THEN Quantity("o1") ELSE 0]
    /\ db.available["l1"] = InitAvailable - Quantity("o1")
    /\ db.available["l1"] = Quantity("o2") - 1

C10_EventRoutedAtMostOnce ==
  \A p, q \in Procs :
    (p # q /\ Routed(p) /\ Routed(q)) => event[p].id # event[q].id

(***************************************************************************)
(* C11.  Once HandleWebhook has inserted the notification's row it writes  *)
(* no status but 200: while the handler runs nothing has been written, and *)
(* a delivery that went through the switch ends with 200, whatever its     *)
(* handler returned and whether or not the processed marker was set.       *)
(***************************************************************************)
C11_SuccessAfterInsert ==
  \A p \in Procs :
    /\ pc[p] \in {"route", "claim", "validate", "issue", "confirm", "mark"} =>
         /\ response[p] = 0
         /\ db.webhook_events[event[p].id].exists
    /\ (pc[p] = "done" /\ Routed(p)) => response[p] = 200
    /\ (pc[p] = "done" /\ response[p] # 200) =>
         outcome[p] \in {"rejected_method", "rejected_body", "insert_failed"}

\* A delivery was answered 200 although its order's fulfilment failed (the
\* order is PENDING again) and the processed marker was not set
C11_Witness ==
  \E p \in Procs :
    /\ pc[p] = "done" /\ outcome[p] = "handled" /\ response[p] = 200
    /\ OrderOf(p) \in Orders
    /\ db.orders[OrderOf(p)].status = "PENDING"
    /\ db.webhook_events[event[p].id].exists
    /\ ~db.webhook_events[event[p].id].processed

(***************************************************************************)
(* C12.  No run creates a ticket or confirms its order unless it asked the *)
(* gateway for the settled amount of the remote order and the answer       *)
(* equalled the expected total of the order, whatever the payload.         *)
(* Violated: step 3 is inside "if pagarmeOrderID != ''", so a payload      *)
(* without a remote order id goes on to issuance unvalidated.              *)
(***************************************************************************)
C12_IssuanceOnlyAfterValidation ==
  \A p \in Procs :
    ( \/ pc[p] = "issue" /\ ticketsCreated[p] > 0
      \/ pc[p] = "confirm"
      \/ Returned(p, {"paid"}) ) =>
      LET a == HandlerArgs(event[p])
      IN  /\ a.pagarmeOrderID # ""
          /\ GetOrderPaidAmount(a.pagarmeOrderID) =
               ExpectedAmount(OrderByIDTx(db, a.orderID).total)

(***************************************************************************)
(* C13.  When a notification of either type for an order has been handled  *)
(* and marked processed, a handler invoked for the same order by another   *)
(* event id returns at the PagarmeWebhookProcessedForOrder guard: it never *)
(* goes on to processOrderPayment, which begins a transaction.             *)
(* Violated: the guard's query joins the order's remote order / charge id  *)
(* against the rows' event id, which are never equal, so it counts 0.      *)
(***************************************************************************)
C13_GuardStopsHandledOrder ==
  [][ \A p \in Procs :
        ( /\ pc[p] = "route"
          /\ OrderOf(p) \in Orders
          /\ OtherEventProcessed(db, OrderOf(p), event[p].id) )
        => pc'[p] # "claim" ]_vars

(***************************************************************************)
(* C14.  In every committed state each order item has either no ticket or  *)
(* exactly as many tickets as its quantity (so no unit has two), and it    *)
(* has its full quantity exactly when the owning order is PAID.            *)
(***************************************************************************)
C14_TicketsPerItem ==
  \A o \in Orders :
    \A k \in DOMAIN OrderItemsTable[o] :
      LET it == OrderItemsTable[o][k]
      IN  /\ db.tickets[it.id] \in {0, it.quantity}
          /\ db.tickets[it.id] = it.quantity <=> db.orders[o].status = "PAID"

\* The two-item order is PAID with 2 and 1 tickets, while the one-unit order,
\* whose run found the lot empty and was rolled back, is PENDING with none
C14_Witness ==
  /\ db.orders["o2"].status = "PAID"
  /\ db.tickets["i2"] = 2 /\ db.tickets["i3"] = 1
  /\ db.orders["o1"].status = "PENDING" /\ db.tickets["i1"] = 0
  /\ \E p \in Procs : Returned(p, {"inventory_exhausted"}) /\ OrderOf(p) = "o1"

C16_RejectedTouchesNothing ==
  [][ \A p \in Procs :
        (pc[p] = "idle" /\ Rejected(p)') =>
          /\ pc'[p] = "done"
          /\ response'[p] = IF request'[p].method # "POST" THEN 405 ELSE 400
          /\ event'[p] = NoEvent
          /\ db' = db /\ tx' = tx /\ lock' = lock ]_vars

\* A GET and an unparsable POST were both rejected, with nothing recorded
C16_Witness ==
  \E p, q \in Procs :
    /\ pc[p] = "done" /\ request[p].method = "GET" /\ response[p] = 405
    /\ pc[q] = "done" /\ request[q].method = "POST" /\ ~request[q].parses
    /\ response[q] = 400
    /\ db = InitDB

(***************************************************************************)
(* C17.  Once an order's committed status is PAID or the fraud status, no  *)
(* step of any later notification changes the order's row, adds or removes *)
(* a ticket of it, or has a run for it inside a transaction (where the     *)
(* inventory is debited): the claim UPDATE only takes PENDING orders.      *)
(***************************************************************************)
C17_FinalStatusIsFrozen ==
  [][ \A o \in Orders :
        FinalStatus(db, o) =>
          /\ db'.orders[o] = db.orders[o]
          /\ TicketRowsOfOrder(db', o) = TicketRowsOfOrder(db, o)
          /\ \A p \in Procs : OrderOf(p)' = o => ~InTx(p)' ]_vars

\* After the order was PAID a notification with another event id asked for it
\* again and its claim took nothing
C17_Witness ==
  \E p, q \in Procs :
    /\ p # q
    /\ event[p].id # event[q].id
    /\ OrderOf(p) = OrderOf(q) /\ OrderOf(p) \in Orders
    /\ pc[p] = "done" /\ outcome[p] = "handled"
    /\ FinalStatus(db, OrderOf(p))
    /\ Returned(q, {"not_claimed"})
    /\ TicketsOfOrder(db, OrderOf(p)) = Quantity(OrderOf(p))

(***************************************************************************)
(* C18.  Scenario A: the order is PENDING with one item of 3 units at the  *)
(* unit price (total 3 x price), its lot has at least 3 available, and the *)
(* gateway reports the total in centavos as settled.  A run for its        *)
(* notification that returns without error leaves exactly 3 tickets of the *)
(* item, the lot's available count 3 lower, the ticket type's sold count 3 *)
(* higher and the order PAID; until then none of them has moved.           *)
(***************************************************************************)
C18_ScenarioA ==
  LET item == OrderItemsTable["o3"][1]
      lot  == TicketTypeLot[item.ticket_type_id]
      paid == db.orders["o3"].status = "PAID"
  IN  /\ Len(OrderItemsTable["o3"]) = 1 /\ item.quantity = 3
      /\ db.orders["o3"].total = 3 * UnitPrice
      /\ settled["o3"] = 100 * db.orders["o3"].total
      /\ InitAvailable >= 3
      /\ \A p \in Procs : (OrderOf(p) = "o3" /\ Returned(p, {"paid"})) => paid
      /\ paid => /\ db.tickets[item.id] = 3
                 /\ db.available[lot] = InitAvailable - 3
                 /\ db.sold[item.ticket_type_id] = 3
      /\ ~paid => /\ db.tickets[item.id] = 0
                  /\ db.available[lot] = InitAvailable
                  /\ db.sold[item.ticket_type_id] = 0

\* The scenario's run has returned from its commit: 3 tickets, PAID
C18_Witness ==
  \E p \in Procs :
    /\ OrderOf(p) = "o3" /\ Returned(p, {"paid"})
    /\ db.orders["o3"].status = "PAID"
    /\ db.tickets["i4"] = 3
    /\ db.sold["tt2"] = 3
    /\ db.available["l1"] = InitAvailable - 3

(***************************************************************************)
(* C19.  ValidatePaymentMethod returns no error exactly when the method is *)
(* the string "pix": every other string, the empty one, credit_card,       *)
(* boleto, voucher and other spellings included, yields an error.          *)
(***************************************************************************)
C19_OnlyPixIsValid ==
  call.fn = "ValidatePaymentMethod" =>
    /\ call.ret = NoError <=> call.arg = "pix"
    /\ call.arg \in {"", "credit_card", "boleto", "voucher"} => call.ret # NoError

\* The function refused a method that differs from "pix" only in case
C19_Witness ==
  /\ call.fn = "ValidatePaymentMethod"
  /\ call.arg = "PIX"
  /\ call.ret # NoError

(***************************************************************************)
(* C20.  sanitizeDocument returns exactly the decimal digits of its input, *)
(* in their order, and nothing else: an input without digits gives the     *)
(* empty string, an all-digit input comes back unchanged, and the function *)
(* applied to its own result returns that result.                          *)
(***************************************************************************)
C20_DigitsOnlyIdempotent ==
  [][ call'.fn = "sanitizeDocument" =>
        LET IsDigit(c) == c \in {"0", "1", "2", "3", "4", "5", "6", "7", "8", "9"}
            doc == call'.arg
            out == call'.ret
        IN  /\ out = SelectSeq(doc, IsDigit)
            /\ (\A i \in DOMAIN doc : ~IsDigit(doc[i])) => out = << >>
            /\ (\A i \in DOMAIN doc : IsDigit(doc[i])) => out = doc
            /\ (call.fn = "sanitizeDocument" /\ doc = call.ret) => out = doc ]_vars

\* The digits of a formatted document came back unchanged from a second call
C20_Witness ==
  /\ call.fn = "sanitizeDocument"
  /\ call.arg = << "9", "0" >>
  /\ call.ret = << "9", "0" >>

C22_ProcessingIsQuiescent ==
  [][ \A o \in Orders :
        db.orders[o].status = "PROCESSING" =>
          /\ db'.orders[o].status = "PROCESSING"
          /\ TicketRowsOfOrder(db', o) = TicketRowsOfOrder(db, o)
          /\ \A p \in Procs : OrderOf(p)' = o => ~InTx(p)'
          /\ \A p \in Procs :
               (pc[p] = "claim" /\ OrderOf(p) = o /\ pc'[p] # "claim") =>
                 (pc'[p] = "mark" /\ outcome'[p] \in {"not_claimed", "claim_error"}) ]_vars

\* The order was committed as PROCESSING by a run that found a mismatch; the
\* notification of the other type then asked for it and its claim took nothing
C22_Witness ==
  \E p, q \in Procs :
    /\ p # q
    /\ OrderOf(p) = OrderOf(q) /\ OrderOf(p) \in Orders
    /\ event[p].type # event[q].type
    /\ pc[p] = "done" /\ outcome[p] = "handled"
    /\ db.orders[OrderOf(p)].status = "PROCESSING"
    /\ Returned(q, {"not_claimed"})
    /\ TicketsOfOrder(db, OrderOf(p)) = 0

(***************************************************************************)
(* C23.  After a run whose gateway call for the settled amount failed has  *)
(* ended, the committed audit trail holds a row of the order with the      *)
(* failed-validation reason and the error detail.                          *)
(* Violated: the row is inserted through the transaction, and the return   *)
(* that follows runs the deferred Rollback, which drops it.                *)
(***************************************************************************)
C23_GatewayFailureIsAudited ==
  \A p \in Procs :
    Returned(p, {"gateway_failed"}) =>
      \E r \in BagToSet(db.history) :
        /\ r.order_id = OrderOf(p)
        /\ r.reason = "payment_validation_failed"
        /\ r.error

(***************************************************************************)
(* C24.  ConfirmOrderTx sets the order's status to PAID exactly when its   *)
(* status is PROCESSING, and then reports no error; for any other status   *)
(* it changes nothing and returns an error.  When the confirmation of a    *)
(* run returns an error, processOrderPayment ends without a commit: the    *)
(* committed database is what it was, so none of the run's tickets or      *)
(* debits persist.                                                         *)
(***************************************************************************)
C24_ConfirmOnlyFromProcessing ==
  [][ /\ call'.fn = "ConfirmOrderTx" =>
           LET d == call'.db
               o == call'.orderID
               r == call'.ret
           IN  IF d.orders[o].status = "PROCESSING"
               THEN /\ ~r.err
                    /\ r.db.orders[o].status = "PAID"
                    /\ r.db = [d EXCEPT !.orders[o].status = "PAID"]
               ELSE /\ r.err
                    /\ r.db = d
      /\ \A p \in Procs :
           (pc[p] = "confirm" /\ pc'[p] = "mark") =>
             \/ /\ outcome'[p] = "paid"
                /\ tx.orders[OrderOf(p)].status = "PROCESSING"
                /\ db'.orders[OrderOf(p)].status = "PAID"
             \/ /\ outcome'[p] = "aborted"
                /\ db' = db /\ tx' = NoTx /\ lock' = {}
                /\ TicketsOfOrder(db', OrderOf(p)) = 0 ]_vars

\* The function refused to confirm an order that was still PENDING
C24_Witness ==
  /\ call.fn = "ConfirmOrderTx"
  /\ call.db.orders[call.orderID].status = "PENDING"
  /\ call.ret.err
  /\ call.ret.db = call.db

(***************************************************************************)
(* C25.  The audit row of the confirmation is best effort: a run that      *)
(* leaves step 7 to 9 with a commit leaves the order PAID with all its     *)
(* tickets and the counters as the transaction had them, and the audit     *)
(* trail either one row of that transition longer or, when the insert      *)
(* failed, as the transaction had it.  A failure of any earlier step, of   *)
(* the confirmation or of Commit ends the run with the committed database  *)
(* unchanged.                                                              *)
(***************************************************************************)
C25_AuditFailureStillCommits ==
  [][ \A p \in Procs :
        LET o == OrderOf(p)
            row == [order_id |-> o, old_status |-> "PROCESSING",
                    new_status |-> "PAID", reason |-> "webhook_payment_confirmed",
                    error |-> FALSE]
        IN  /\ (pc[p] = "confirm" /\ pc'[p] = "mark" /\ outcome'[p] = "paid") =>
                 /\ db'.orders[o].status = "PAID"
                 /\ TicketsOfOrder(db', o) = Quantity(o)
                 /\ db'.tickets = tx.tickets
                 /\ db'.sold = tx.sold
                 /\ db'.available = tx.available
                 /\ db'.history \in { tx.history, tx.history (+) SetToBag({row}) }
            /\ AbortStep(p, {"aborted", "gateway_failed", "inventory_exhausted"}) =>
                 db' = db ]_vars

\* A run committed the order as PAID with all its tickets and debits although
\* the audit row of the transition was not written
C25_Witness ==
  \E p \in Procs :
    /\ Returned(p, {"paid"})
    /\ db.orders[OrderOf(p)].status = "PAID"
    /\ TicketsOfOrder(db, OrderOf(p)) = Quantity(OrderOf(p))
    /\ db.available["l1"] = InitAvailable - Quantity(OrderOf(p))
    /\ HistoryRows(db, OrderOf(p), "webhook_payment_confirmed") = 0

(***************************************************************************)
(* C26.  The row of a notification's event id is inserted before anything  *)
(* the notification causes: a delivery that is at or past the switch has   *)
(* its row, and the insert step itself changes nothing but the event rows. *)
(* When the insert fails the call ends there: the notification reaches no  *)
(* handler, no state changes, and the answer is 500.                       *)
(***************************************************************************)
C26_RowBeforeProcessing ==
  [][ \A p \in Procs :
        /\ Routed(p)' => db'.webhook_events[event'[p].id].exists
        /\ (<< pc[p], pc'[p] >> \in { << "idle", "insert" >>, << "insert", "route" >> }) =>
             /\ db' = [db EXCEPT !.webhook_events = db'.webhook_events]
             /\ tx' = tx /\ lock' = lock
        /\ (pc[p] = "insert" /\ pc'[p] = "route") =>
             /\ db'.webhook_events[event[p].id].exists
             /\ response'[p] = 0
        /\ (pc[p] = "insert" /\ pc'[p] \notin {"insert", "route"}) =>
             /\ pc'[p] = "done"
             /\ outcome'[p] = "insert_failed"
             /\ response'[p] = 500
             /\ db' = db /\ tx' = tx /\ lock' = lock ]_vars

\* The insert failed: the delivery was answered 500, its notification has no
\* row, and nothing has changed
C26_Witness ==
  \E p \in Procs :
    /\ pc[p] = "done" /\ outcome[p] = "insert_failed" /\ response[p] = 500
    /\ ~db.webhook_events[event[p].id].exists
    /\ db = InitDB

(***************************************************************************)
(* C27.  A parsable notification whose type is neither order.paid nor      *)
(* charge.paid changes no order, ticket, counter or audit row: no step of  *)
(* its delivery touches anything but the event rows, and it never reaches  *)
(* processOrderPayment.  Its row is inserted, the switch drops it, the row *)
(* is marked processed (unless that UPDATE fails, which is only logged)    *)
(* and the answer is 200.                                                  *)
(***************************************************************************)
C27_UnknownTypeIsDropped ==
  [][ \A p \in Procs :
        ( /\ event'[p] # NoEvent
          /\ event'[p].type \notin {"order.paid", "charge.paid"}
          /\ pc'[p] # pc[p] ) =>
          LET row == db'.webhook_events[event'[p].id]
          IN  /\ SameBusinessState(db', db)
              /\ tx' = tx /\ lock' = lock
              /\ pc'[p] \notin {"claim", "validate", "issue", "confirm"}
              /\ pc[p] = "route" =>
                   (pc'[p] = "mark" /\ outcome'[p] = "unhandled_type" /\ row.exists)
              /\ pc[p] = "mark" =>
                   /\ pc'[p] = "done" /\ response'[p] = 200
                   /\ row.exists
                   /\ row.processed \/ db' = db ]_vars

\* A notification of type order.created was recorded, dropped, marked
\* processed and answered 200, with no order, ticket or counter touched
C27_Witness ==
  \E p \in Procs :
    /\ event[p].type = "order.created"
    /\ pc[p] = "done" /\ outcome[p] = "handled" /\ response[p] = 200
    /\ db.webhook_events[event[p].id].exists
    /\ db.webhook_events[event[p].id].processed
    /\ \A q \in Procs : q # p => pc[q] = "idle"
    /\ SameBusinessState(db, InitDB)

(***************************************************************************)
(* C28.  A run of processOrderPayment for an order that is not PENDING     *)
(* gets false from its claim (or an error) and returns at once: the step   *)
(* leaves the committed database (status, remote ids, tickets, counters,   *)
(* audit rows), the open transaction and the lock exactly as they were,    *)
(* and the run never reaches the gateway call or any later step.           *)
(***************************************************************************)
C28_LostClaimChangesNothing ==
  [][ \A p \in Procs :
        /\ ( /\ pc[p] = "claim" /\ pc'[p] # "claim"
             /\ db.orders[OrderOf(p)].status # "PENDING" ) =>
             /\ pc'[p] = "mark"
             /\ outcome'[p] \in {"not_claimed", "claim_error"}
             /\ db' = db /\ tx' = tx /\ lock' = lock /\ settled' = settled
        /\ (pc[p] = "claim" /\ pc'[p] = "mark") =>
             (db' = db /\ tx' = tx /\ lock' = lock)
        /\ (pc'[p] = "mark" /\ outcome'[p] = "not_claimed" /\ pc[p] # "mark") =>
             (pc[p] = "claim" /\ db.orders[OrderOf(p)].status # "PENDING") ]_vars

\* The claim of a run returned false on an order committed as PROCESSING by the
\* mismatch path; the order's row is as that commit left it
C28_Witness ==
  \E p \in Procs :
    /\ Returned(p, {"not_claimed"})
    /\ db.orders[OrderOf(p)].status = "PROCESSING"
    /\ db.orders[OrderOf(p)].pagarme_order_id = RemoteOrderId(OrderOf(p))
    /\ TicketsOfOrder(db, OrderOf(p)) = 0
    /\ db.available["l1"] = InitAvailable
    /\ HistoryRows(db, OrderOf(p), "amount_mismatch") = 1

(***************************************************************************)
(* C29.  An order.paid notification whose data is absent or has no order   *)
(* code, and a charge.paid notification whose data is absent, has no order *)
(* object or whose order has no code, cause no claim and no change of any  *)
(* order, ticket, counter or audit row: the handler returns before         *)
(* processOrderPayment.  The event's row is there, it is marked processed  *)
(* (unless that UPDATE fails, which is only logged) and the answer is 200. *)
(***************************************************************************)
C29_IncompletePayloadIsDropped ==
  [][ \A p \in Procs :
        LET ev == event'[p]
            incomplete ==
              \/ /\ ev.type = "order.paid"
                 /\ ~ev.data.has_data \/ ev.data.code = ""
              \/ /\ ev.type = "charge.paid"
                 /\ \/ ~ev.data.has_data
                    \/ ~ev.data.has_order
                    \/ ev.data.order_code = ""
            row == db'.webhook_events[ev.id]
        IN  (incomplete /\ pc'[p] # pc[p]) =>
              /\ SameBusinessState(db', db)
              /\ tx' = tx /\ lock' = lock
              /\ pc'[p] \notin {"claim", "validate", "issue", "confirm"}
              /\ pc[p] = "route" =>
                   /\ pc'[p] = "mark" /\ row.exists
                   /\ outcome'[p] \in {"no_data", "no_order", "no_order_code"}
              /\ pc[p] = "mark" =>
                   /\ pc'[p] = "done" /\ response'[p] = 200
                   /\ row.exists
                   /\ row.processed \/ db' = db ]_vars

\* A charge.paid notification without an order object and an order.paid one
\* without data were both recorded, marked processed and answered 200, and no
\* order, ticket or counter has changed
C29_Witness ==
  \E p, q \in Procs :
    /\ event[p].type = "charge.paid" /\ event[p].data.has_data
    /\ ~event[p].data.has_order
    /\ event[q].type = "order.paid" /\ ~event[q].data.has_data
    /\ \A r \in {p, q} :
         /\ pc[r] = "done" /\ outcome[r] = "handled" /\ response[r] = 200
         /\ db.webhook_events[event[r].id].exists
         /\ db.webhook_events[event[r].id].processed
    /\ SameBusinessState(db, InitDB)

(***************************************************************************)
(* C30.  Each bounded decrement primitive, DecrementLotAvailable and       *)
(* DecrementLotAvailableTx, tells its caller whether it took effect: when  *)
(* the lot's available count is less than n it leaves the count unchanged  *)
(* and signals failure, otherwise it subtracts exactly n and signals       *)
(* success.                                                                *)
(* Violated by DecrementLotAvailable, which returns only the error of Exec *)
(* and so reports success when the UPDATE matched no row.                  *)
(***************************************************************************)
C30_DecrementReportsEffect ==
  call.fn \in {"DecrementLotAvailable", "DecrementLotAvailableTx"} =>
    LET d == call.db
        l == call.lotID
        r == call.ret
    IN  IF d.available[l] < call.n
        THEN r.db = d /\ r.err
        ELSE /\ r.db = [d EXCEPT !.available[l] = d.available[l] - call.n]
             /\ ~r.err

(***************************************************************************)
(* C31.  In every committed state each ticket type's sold counter is its   *)
(* initial value (0) plus the number of committed tickets of the type, and *)
(* no step lowers a committed sold counter.                                *)
(***************************************************************************)
C31_SoldCountsTickets ==
  [][ \A t \in TicketTypes :
        /\ db.sold[t] = InitDB.sold[t] + TicketsOfType(db, t)
        /\ db'.sold[t] = InitDB.sold[t] + TicketsOfType(db', t)
        /\ db'.sold[t] >= db.sold[t] ]_vars

\* The two-type order is committed: 2 sold of one type and 1 of the other
C31_Witness ==
  /\ db.orders["o2"].status = "PAID"
  /\ db.sold["tt1"] = 2 /\ db.sold["tt2"] = 1
  /\ TicketsOfType(db, "tt1") = 2 /\ TicketsOfType(db, "tt2") = 1

(***************************************************************************)
(* C32.  Conservation of inventory: in every committed state, for every    *)
(* lot, the initial available equals the current available plus the number *)
(* of committed tickets whose ticket type belongs to the lot, under every  *)
(* interleaving of runs on orders that share the lot.                      *)
(***************************************************************************)
C32_InventoryConserved ==
  \A l \in Lots :
    InitDB.available[l] = db.available[l] + TicketsFromLot(db, l)

\* Two runs on orders of the same lot met: the one-unit order is PAID with its
\* unit debited, the run of the three-unit order found the lot too short
C32_Witness ==
  \E p, q \in Procs :
    /\ OrderOf(p) = "o1" /\ OrderOf(q) = "o2"
    /\ db.orders["o1"].status = "PAID"
    /\ Returned(q, {"inventory_exhausted"})
    /\ db.available["l1"] = InitAvailable - 1
    /\ TicketsFromLot(db, "l1") = 1

(***************************************************************************)
(* C33.  In every reachable state each ticket type's committed sold        *)
(* counter is at most the type's max capacity, also when the types of a    *)
(* lot share more available units than one type's capacity.                *)
(***************************************************************************)
C33_SoldWithinMax ==
  \A t \in TicketTypes : db.sold[t] <= TicketTypeMax[t]

(***************************************************************************)
(* The pipeline when no statement, gateway call, Begin or Commit returns   *)
(* an error that ends a run: deliveries of the charge.paid notification of *)
(* the one-unit order and of the order.paid notification of the two-unit   *)
(* order, which the lot can serve together.  Each delivery is a goroutine  *)
(* of its own that the scheduler keeps running, and a statement that waits *)
(* for the write lock runs once the lock is free: weak fairness of each    *)
(* delivery's steps.                                                       *)
(***************************************************************************)
LiveOrders == {"o1", "o4"}

LiveRequests ==
  { r \in Requests : /\ r.method = "POST" /\ r.parses
                     /\ r.n.id \in {"evt2", "evt12"} }

\* How a delivery ends when one of its steps failed
FailedOutcomes ==
  {"insert_failed", "claim_error", "aborted", "gateway_failed", "fraud_failed"}

LiveStep(p) ==
  /\ \/ HandleWebhook(p, LiveRequests)
     \/ InsertEvent(p)
     \/ Route(p)
     \/ BeginClaim(p)
     \/ Validate(p)
     \/ IssueUnit(p)
     \/ Confirm(p)
     \/ MarkProcessed(p)
  /\ outcome'[p] \notin FailedOutcomes

NextLive == \E p \in Procs : LiveStep(p)

SpecLive ==
  /\ Init
  /\ [][NextLive]_vars
  /\ \A p \in Procs : WF_vars(LiveStep(p))

\* The units of lot l that the orders still to be fulfilled will draw
PendingDemand(d, l) ==
  LET S == { it \in AllItems :
               /\ TicketTypeLot[it.ticket_type_id] = l
               /\ \E o \in LiveOrders :
                    /\ d.orders[o].status # "PAID"
                    /\ \E k \in DOMAIN OrderItemsTable[o] : OrderItemsTable[o][k] = it }
  IN  SumOver([it \in S |-> it.quantity], S)

(***************************************************************************)
(* C34.  Liveness: when a paid notification with a fresh event id has been *)
(* received for a PENDING order whose settled amount at the gateway equals *)
(* the expected total, the lots hold the units of the orders still to be   *)
(* fulfilled, and no step fails, then the delivery ends and the order is   *)
(* eventually PAID with one ticket per purchased unit, whatever other      *)
(* deliveries for the same or another order run at the same time.          *)
(***************************************************************************)
C34_PaidNotificationFulfils ==
  \A p \in Procs : \A o \in LiveOrders :
    ( /\ pc[p] = "insert" /\ OrderOf(p) = o
      /\ ~db.webhook_events[event[p].id].exists
      /\ db.orders[o].status = "PENDING"
      /\ settled[o] = ExpectedAmount(db.orders[o].total)
      /\ \A l \in Lots : db.available[l] >= PendingDemand(db, l) )
    ~> ( /\ pc[p] = "done"
         /\ db.orders[o].status = "PAID"
         /\ TicketsOfOrder(db, o) = Quantity(o) )

\* The delivery for the one-unit order has ended with the order PAID and its
\* ticket issued while the run of the two-unit order is issuing tickets
C34_Witness ==
  \E p, q \in Procs :
    /\ OrderOf(p) = "o1" /\ pc[p] = "done" /\ response[p] = 200
    /\ db.orders["o1"].status = "PAID" /\ TicketsOfOrder(db, "o1") = 1
    /\ OrderOf(q) = "o4" /\ pc[q] = "issue" /\ lock = {q}

(***************************************************************************)
(* GetPaymentStatus, polled by the order's owner next to the pipeline:     *)
(* repository.OrderByID on the pool (the committed database), then paid    *)
(* and the display status from the status read.  A query error answers 404.*)
(***************************************************************************)
DisplayStatus(orderStatus) ==
  CASE orderStatus = "PENDING" -> "pending"
    [] orderStatus = "PROCESSING" -> "processing"
    [] orderStatus \in {"PAID", "CONFIRMED"} -> "paid"
    [] orderStatus = "CANCELLED" -> "cancelled"
    [] orderStatus = "FRAUD_ALERT" -> "fraud_alert"
    [] OTHER -> orderStatus

\* Faulty status: paid is what the gateway says of the order's payment
PaidFromGateway(d, orderID, err) ==
  IF err
  THEN [code |-> 404, status |-> "", orderStatus |-> "", paid |-> FALSE]
  ELSE LET isPaid == settled[orderID] = ExpectedAmount(d.orders[orderID].total)
       IN  [code |-> 200, status |-> IF isPaid THEN "paid" ELSE "pending",
            orderStatus |-> d.orders[orderID].status, paid |-> isPaid]

GetPaymentStatus(d, orderID, err) ==
  IF err
  THEN [code |-> 404, status |-> "", orderStatus |-> "", paid |-> FALSE]
  ELSE LET orderStatus == d.orders[orderID].status
       IN  [code |-> 200, status |-> DisplayStatus(orderStatus),
            orderStatus |-> orderStatus,
            paid |-> orderStatus = "PAID" \/ orderStatus = "CONFIRMED"]

StatusOrders == {"o1", "o2"}

CallGetPaymentStatus ==
  /\ \E o \in StatusOrders, err \in BOOLEAN :
       call' = [fn |-> "GetPaymentStatus", orderID |-> o,
                ret |-> GetPaymentStatus(db, o, err)]
  /\ UNCHANGED << db, tx, lock, settled, pc, event, ticketsCreated, outcome,
                  response, request >>

StatusRequests ==
  { r \in Requests : /\ r.method = "POST" /\ r.parses
                     /\ r.n.id \in {"evt1", "evt3"} }

NextStatus ==
  \/ CallGetPaymentStatus
  \/ \E p \in Procs :
       \/ HandleWebhook(p, StatusRequests)
       \/ InsertEvent(p)
       \/ Route(p)
       \/ BeginClaim(p)
       \/ Validate(p)
       \/ IssueUnit(p)
       \/ Confirm(p)
       \/ MarkProcessed(p)

SpecStatus == Init /\ [][NextStatus]_vars

(***************************************************************************)
(* C35.  GetPaymentStatus answers paid = true only when the order's        *)
(* committed status is PAID (or CONFIRMED); from the moment it has         *)
(* answered paid = true, every ticket of the order is committed, the lot   *)
(* and sold counters are debited for exactly the committed tickets, and no *)
(* run on the order is between its claim and its Commit or Rollback; an    *)
(* order whose runs have only aborted is not reported paid.                *)
(***************************************************************************)
C35_PaidOnlyWhenCommitted ==
  (call.fn = "GetPaymentStatus" /\ call.ret.paid) =>
    LET o == call.orderID
    IN  /\ call.ret.orderStatus \in {"PAID", "CONFIRMED"}
        /\ db.orders[o].status \in {"PAID", "CONFIRMED"}
        /\ TicketsOfOrder(db, o) = Quantity(o)
        /\ CountersMatchTickets(db)
        /\ \A p \in Procs : OrderOf(p) = o => ~InTx(p)

\* The three-unit order was reported paid, with its three tickets committed,
\* while the run of the one-unit order holds the transaction
C35_Witness ==
  /\ call.fn = "GetPaymentStatus" /\ call.orderID = "o2" /\ call.ret.paid
  /\ call.ret.status = "paid"
  /\ TicketsOfOrder(db, "o2") = 3
  /\ \E p \in Procs : OrderOf(p) = "o1" /\ InTx(p)

(***************************************************************************)
(* CreatePayment, called by the order's owner, possibly several times at   *)
(* once.  Each call is a goroutine (one per process); its statements run   *)
(* on the pool, with no transaction around them.  The gateway keeps the    *)
(* payment requests it was asked to create, each with a status; call holds *)
(* the gateway's requests, each caller's existingOrderID and a log of the  *)
(* requests created with what the database held at that moment.            *)
(***************************************************************************)
PaymentOrder == "o1"

\* The id the gateway gives the request a caller creates; gw0 is the request
\* of an earlier call
GwId(p) == IF p = 1 THEN "gw1" ELSE IF p = 2 THEN "gw2" ELSE "gw3"
GwIds == {"gw0"} \cup { GwId(p) : p \in Procs }

\* A request the buyer can still pay, or has paid
LiveStatuses == {"pending", "paid"}

\* SELECT pagarme_order_id FROM orders WHERE id = ?; "" on an error
GetOrderPagarmeOrderID(d, orderID, err) ==
  IF err THEN "" ELSE d.orders[orderID].pagarme_order_id

\* UPDATE orders SET pagarme_order_id = ? WHERE id = ?
SetOrderPagarmeOrderID(d, orderID, pagarmeOrderID) ==
  [d EXCEPT !.orders[orderID].pagarme_order_id = pagarmeOrderID]

InitPayment ==
  /\ \E st \in {"PENDING", "PAID"}, ex \in {"", "gw0"},
        gs \in {"pending", "paid", "canceled", "failed"} :
       /\ st = "PAID" => (ex = "gw0" /\ gs = "paid")
       /\ gs = "paid" => st = "PAID"
       /\ db = [InitDB EXCEPT !.orders[PaymentOrder].status = st,
                              !.orders[PaymentOrder].pagarme_order_id = ex]
       /\ call = [fn |-> "CreatePayment",
                  gateway |-> [g \in GwIds |->
                                 IF g = "gw0" /\ ex = "gw0" THEN gs ELSE "none"],
                  existing |-> [p \in Procs |-> ""],
                  log |-> {}]
  /\ tx = NoTx
  /\ lock = {}
  /\ settled \in { s \in [Orders -> UNION { SettledAmounts(o) : o \in Orders }] :
                     \A o \in Orders : s[o] = ExpectedAmount(OrderTotal(o)) }
  /\ pc = [p \in Procs |-> "idle"]
  /\ event = [p \in Procs |-> NoEvent]
  /\ ticketsCreated = [p \in Procs |-> 0]
  /\ outcome = [p \in Procs |-> "none"]
  /\ response = [p \in Procs |-> 0]
  /\ request = [p \in Procs |-> NoRequest]

\* repository.OrderByID and the status check
CreatePaymentStart(p) ==
  /\ pc[p] = "idle"
  /\ \E err \in BOOLEAN :
       IF err
       THEN Finish(p, "not_found", 404)
       ELSE IF db.orders[PaymentOrder].status # "PENDING"
       THEN Finish(p, "already_processed", 400)
       ELSE /\ pc' = [pc EXCEPT ![p] = "existing"]
            /\ UNCHANGED << outcome, response >>
  /\ UNCHANGED << db, tx, lock, settled, event, ticketsCreated, request, call >>

\* repository.GetOrderPagarmeOrderID, its error dropped
CreatePaymentExisting(p) ==
  /\ pc[p] = "existing"
  /\ \E err \in BOOLEAN :
       LET existingOrderID == GetOrderPagarmeOrderID(db, PaymentOrder, err)
       IN  /\ call' = [call EXCEPT !.existing[p] = existingOrderID]
           /\ pc' = [pc EXCEPT ![p] = IF existingOrderID # "" THEN "gateway"
                                      ELSE "create"]
  /\ UNCHANGED << db, tx, lock, settled, event, ticketsCreated, outcome,
                  response, request >>

\* h.client.GetOrderStatus(existingOrderID): the existing request is returned
\* unless the call failed or the request is canceled or failed
CreatePaymentGateway(p) ==
  /\ pc[p] = "gateway"
  /\ \E err \in BOOLEAN :
       IF ~err /\ call.gateway[call.existing[p]] \notin {"canceled", "failed"}
       THEN Finish(p, "existing_returned", 200)
       ELSE /\ pc' = [pc EXCEPT ![p] = "create"]
            /\ UNCHANGED << outcome, response >>
  /\ UNCHANGED << db, tx, lock, settled, event, ticketsCreated, request, call >>

\* h.client.CreatePixOrder (the order has items, the buyer a valid document)
CreatePaymentCreate(p) ==
  /\ pc[p] = "create"
  /\ \E err \in BOOLEAN :
       IF err
       THEN /\ Finish(p, "create_failed", 500)
            /\ UNCHANGED call
       ELSE LET ex == db.orders[PaymentOrder].pagarme_order_id
            IN  /\ call' = [call EXCEPT
                     !.gateway[GwId(p)] = "pending",
                     !.log = @ \cup
                       { [id |-> GwId(p),
                          orderStatus |-> db.orders[PaymentOrder].status,
                          existing |-> ex,
                          existingStatus |-> IF ex = "" THEN "none"
                                             ELSE call.gateway[ex]] }]
                /\ pc' = [pc EXCEPT ![p] = "save"]
                /\ UNCHANGED << outcome, response >>
  /\ UNCHANGED << db, tx, lock, settled, event, ticketsCreated, request >>

\* repository.SetOrderPagarmeOrderID, its error dropped, then 200
CreatePaymentSave(p) ==
  /\ pc[p] = "save"
  /\ \E err \in BOOLEAN :
       db' = IF err THEN db
             ELSE SetOrderPagarmeOrderID(db, PaymentOrder, GwId(p))
  /\ Finish(p, "created", 200)
  /\ UNCHANGED << tx, lock, settled, event, ticketsCreated, request, call >>

\* The gateway cancels a pending request (expired PIX) or marks it failed
GatewayCloses ==
  /\ \E g \in GwIds, s \in {"canceled", "failed"} :
       /\ call.gateway[g] = "pending"
       /\ call' = [call EXCEPT !.gateway[g] = s]
  /\ UNCHANGED << db, tx, lock, settled, pc, event, ticketsCreated, outcome,
                  response, request >>

NextPayment ==
  \/ GatewayCloses
  \/ \E p \in Procs :
       \/ CreatePaymentStart(p)
       \/ CreatePaymentExisting(p)
       \/ CreatePaymentGateway(p)
       \/ CreatePaymentCreate(p)
       \/ CreatePaymentSave(p)

SpecPayment == InitPayment /\ [][NextPayment]_vars

(***************************************************************************)
(* C36.  CreatePayment avoids duplicate charges: a gateway request is      *)
(* created only for a PENDING order that has no gateway request or whose   *)
(* request is canceled or failed, so the order has at most one live        *)
(* gateway request, whatever the number of calls and their interleaving.   *)
(***************************************************************************)
C36_NoDuplicateCharge ==
  /\ \A c \in call.log :
       /\ c.orderStatus = "PENDING"
       /\ c.existing = "" \/ c.existingStatus \in {"canceled", "failed"}
  /\ Cardinality({ g \in GwIds : call.gateway[g] \in LiveStatuses }) <= 1

(***************************************************************************)
(* internal/pagarme phone.go: sanitizePhone and ValidatePhone, called on   *)
(* country codes, area codes and numbers with and without punctuation.     *)
(***************************************************************************)
\* Faulty sanitizer: the string is kept as it is
KeepPhone(phone) == phone

\* regexp `[^\d]` ReplaceAllString(phone, "")
RECURSIVE sanitizePhone(_)
sanitizePhone(phone) ==
  IF phone = << >>
  THEN << >>
  ELSE (IF Head(phone) \in AsciiDigits THEN << Head(phone) >> ELSE << >>)
         \o sanitizePhone(Tail(phone))

\* The decimal digits in order: the digit of value v is DecimalDigits[v + 1]
DecimalDigits == << "0", "1", "2", "3", "4", "5", "6", "7", "8", "9" >>

\* strconv.Atoi on an unsigned decimal string: the value, or an error for
\* the empty string and for a string with another character
RECURSIVE Atoi(_)
Atoi(s) ==
  IF s = << >> THEN [val |-> 0, err |-> TRUE]
  ELSE IF s[Len(s)] \notin AsciiDigits THEN [val |-> 0, err |-> TRUE]
  ELSE LET last == (CHOOSE k \in 1..10 : DecimalDigits[k] = s[Len(s)]) - 1
       IN  IF Len(s) = 1 THEN [val |-> last, err |-> FALSE]
           ELSE LET r == Atoi(SubSeq(s, 1, Len(s) - 1))
                IN  [val |-> r.val * 10 + last, err |-> r.err]

ValidatePhone(countryCode, areaCode, number) ==
  IF countryCode = << >> THEN "country code e obrigatorio"
  ELSE LET cc  == sanitizePhone(countryCode)
           ac  == sanitizePhone(areaCode)
           num == sanitizePhone(number)
       IN  IF cc = << "5", "5" >>
           THEN IF Len(ac) # 2 THEN "DDD deve ter 2 digitos"
                ELSE IF Atoi(ac).err \/ Atoi(ac).val < 11 \/ Atoi(ac).val > 99
                THEN "DDD invalido: deve estar entre 11 e 99"
                ELSE IF Len(num) # 8 /\ Len(num) # 9
                THEN "numero deve ter 8 ou 9 digitos"
                ELSE NoError
           ELSE IF Len(cc) < 1 \/ Len(cc) > 3 THEN "country code invalido"
                ELSE IF Len(ac) = 0 THEN "area code e obrigatorio"
                ELSE IF Len(num) < 6 THEN "numero de telefone muito curto"
                ELSE NoError

\* The strings the function is called with
CountryCodes ==
  { << >>, << "+" >>, << " " >>, << "5", "5" >>, << "+", "5", "5" >>,
    << "5", "-", "5" >>, << "5" >>, << "1" >>, << "+", "1" >>,
    << "0", "5", "5" >>, << "5", "5", "5" >>, << "3", "5", "1" >>,
    << "1", "2", "3", "4" >> }

AreaCodes ==
  { << >>, << "(", ")" >>, << "1" >>, << "0", "0" >>, << "0", "9" >>,
    << "1", "0" >>, << "1", "1" >>, << "(", "1", "1", ")" >>, << "2", "1" >>,
    << "9", "9" >>, << "a", "1" >>, << "1", "0", "0" >>, << "1", "1", "1" >> }

\* Numbers of 0 to MaxPhoneDigits digits, plain and with a hyphen in them
PhoneNumbers ==
  { [i \in 1..n |-> DecimalDigits[(i % 10) + 1]] : n \in 0..MaxPhoneDigits }
    \cup { [i \in 1..(n + 1) |-> IF i = 5 THEN "-" ELSE DecimalDigits[(i % 10) + 1]] :
             n \in 4..MaxPhoneDigits }

CallValidatePhone ==
  /\ call = NoCall
  /\ \E countryCode \in CountryCodes, areaCode \in AreaCodes,
        number \in PhoneNumbers :
       call' = [fn |-> "ValidatePhone", countryCode |-> countryCode,
                areaCode |-> areaCode, number |-> number,
                ret |-> ValidatePhone(countryCode, areaCode, number)]
  /\ UNCHANGED << db, tx, lock, settled, pc, event, ticketsCreated, outcome,
                  response, request >>

NextPhone == CallValidatePhone

SpecPhone == Init /\ [][NextPhone]_vars

(***************************************************************************)
(* C37.  ValidatePhone: an empty country code is an error.  For a country  *)
(* code whose digits are "55" the result is no error exactly when the area *)
(* code has two digits that read as a number from 11 to 99 and the number  *)
(* has 8 or 9 digits.  For any other country code the result is no error   *)
(* exactly when the country code has 1 to 3 digits, the area code at least *)
(* one digit and the number at least 6 digits.  Characters other than      *)
(* digits do not count.                                                    *)
(***************************************************************************)
C37_ValidatePhone ==
  call.fn = "ValidatePhone" =>
    LET IsDigit(c) == c \in AsciiDigits
        cc  == SelectSeq(call.countryCode, IsDigit)
        ac  == SelectSeq(call.areaCode, IsDigit)
        num == SelectSeq(call.number, IsDigit)
        ok  == call.ret = NoError
    IN  /\ call.countryCode = << >> => ~ok
        /\ (call.countryCode # << >> /\ cc = << "5", "5" >>) =>
             (ok <=> /\ \E a \in 1..9, b \in 0..9 :
                          /\ ac = << DecimalDigits[a + 1], DecimalDigits[b + 1] >>
                          /\ 10 * a + b >= 11
                     /\ Len(num) \in {8, 9})
        /\ (call.countryCode # << >> /\ cc # << "5", "5" >>) =>
             (ok <=> /\ Len(cc) \in 1..3
                     /\ Len(ac) >= 1
                     /\ Len(num) >= 6)

\* A Brazilian number written with punctuation is accepted
C37_Witness ==
  /\ call.fn = "ValidatePhone"
  /\ call.countryCode = << "+", "5", "5" >>
  /\ call.areaCode = << "(", "1", "1", ")" >>
  /\ Len(call.number) = 10 /\ call.number[5] = "-"
  /\ call.ret = NoError

(***************************************************************************)
(* db/seeds: Run = clear, then insert.  A table is the set of its rows; a  *)
(* row carries its primary key and the columns the pipeline and the seed   *)
(* write.  The catalog is cut down to two users, one producer, event and   *)
(* event date, one lot and two ticket types.  Every statement can fail;    *)
(* of the failures the first DELETE's and the first INSERT's are modelled. *)
(***************************************************************************)
SeedTableNames ==
  << "tickets", "order_items", "orders", "ticket_types", "lots",
     "event_dates", "events", "producers", "users" >>

NoRows == [t \in { SeedTableNames[k] : k \in DOMAIN SeedTableNames } |-> {}]

\* What auth.HashPassword may return for the seed password
PasswordHashes == {"hash_a", "hash_b"}

\* time.Now() of a run, in seconds
SeedTimes == 1..MaxSeedTime

\* The rows insert writes, in the order of its statements
SeedRows(now, passwordHash) ==
  << [table |-> "users",
      rows |-> { [id |-> "seed-user-1", password_hash |-> passwordHash,
                  created_at |-> now],
                 [id |-> "seed-producer-user", password_hash |-> passwordHash,
                  created_at |-> now] }],
     [table |-> "producers",
      rows |-> { [id |-> "seed-producer-1", user_id |-> "seed-producer-user",
                  created_at |-> now] }],
     [table |-> "events",
      rows |-> { [id |-> "seed-event-1", producer_id |-> "seed-producer-1",
                  created_at |-> now, updated_at |-> now] }],
     [table |-> "event_dates",
      rows |-> { [id |-> "seed-date-1a", event_id |-> "seed-event-1",
                  created_at |-> now] }],
     [table |-> "lots",
      rows |-> { [id |-> "seed-lot-1a", event_date_id |-> "seed-date-1a",
                  starts_at |-> now, total_quantity |-> 3000,
                  available_quantity |-> 3000, created_at |-> now] }],
     [table |-> "ticket_types",
      rows |-> { [id |-> "seed-tt-1a-p", lot_id |-> "seed-lot-1a",
                  max_quantity |-> 1500, sold_quantity |-> 0, created_at |-> now],
                 [id |-> "seed-tt-1a-v", lot_id |-> "seed-lot-1a",
                  max_quantity |-> 200, sold_quantity |-> 0, created_at |-> now] }] >>

\* Faulty clear: only the catalog tables are emptied
ClearCatalogOnly(d) ==
  [t \in DOMAIN d |-> IF t \in {"tickets", "order_items", "orders"}
                      THEN d[t] ELSE {}]

\* DELETE FROM each of the tables
clear(d) == [t \in DOMAIN d |-> {}]

\* INSERT of each row in turn; a row whose primary key is taken is an error
\* that ends insert, the tables of the earlier statements staying written
RECURSIVE insertFrom(_, _)
insertFrom(d, stmts) ==
  IF stmts = << >> THEN [tables |-> d, err |-> FALSE]
  ELSE LET s == Head(stmts)
       IN  IF \E r \in s.rows : \E x \in d[s.table] : x.id = r.id
           THEN [tables |-> d, err |-> TRUE]
           ELSE insertFrom([d EXCEPT ![s.table] = @ \cup s.rows], Tail(stmts))

insert(d, now, passwordHash) == insertFrom(d, SeedRows(now, passwordHash))

\* seeds.Run; fail names the statement that returns an error, if one does
Run(d, now, passwordHash, fail) ==
  IF fail = "clear" THEN [tables |-> d, err |-> TRUE]
  ELSE IF fail = "insert" THEN [tables |-> clear(d), err |-> TRUE]
  ELSE insert(clear(d), now, passwordHash)

\* Databases Run is started on: empty; seeded at second 0; seeded, with an
\* order of one ticket fulfilled; with rows that are not the seed's
SeededWithSale ==
  LET s == insert(NoRows, 0, "hash_a").tables
  IN  [s EXCEPT
        !["orders"] = { [id |-> "ord-1", status |-> "PAID"] },
        !["order_items"] = { [id |-> "item-1", order_id |-> "ord-1"] },
        !["tickets"] = { [id |-> "tkt-1", order_id |-> "ord-1"] },
        !["lots"] = { [r EXCEPT !.available_quantity = @ - 1] : r \in @ },
        !["ticket_types"] =
          { IF r.id = "seed-tt-1a-p" THEN [r EXCEPT !.sold_quantity = 1] ELSE r :
              r \in @ }]

SeedStarts ==
  { NoRows,
    insert(NoRows, 0, "hash_a").tables,
    SeededWithSale,
    [NoRows EXCEPT
       !["users"] = { [id |-> "user-x", password_hash |-> "hash_x", created_at |-> 0] },
       !["orders"] = { [id |-> "ord-x", status |-> "PENDING"] },
       !["order_items"] = { [id |-> "item-x", order_id |-> "ord-x"] },
       !["lots"] = { [id |-> "lot-x", event_date_id |-> "date-x", starts_at |-> 0,
                      total_quantity |-> 10, available_quantity |-> 4,
                      created_at |-> 0] }] }

\* The first run, on any of the starting databases
CallRun ==
  /\ call = NoCall
  /\ \E d \in SeedStarts, now \in SeedTimes, h \in PasswordHashes,
        fail \in {"none", "clear", "insert"} :
       LET r == Run(d, now, h, fail)
       IN  call' = [fn |-> "seeds.Run", runs |-> 1, now |-> now,
                    errs |-> << r.err >>, once |-> r.tables, tables |-> r.tables]
  /\ UNCHANGED << db, tx, lock, settled, pc, event, ticketsCreated, outcome,
                  response, request >>

\* The second run, on what the first left, at the same second or later
CallRunAgain ==
  /\ call.fn = "seeds.Run" /\ call.runs = 1
  /\ \E now \in SeedTimes, h \in PasswordHashes,
        fail \in {"none", "clear", "insert"} :
       /\ now >= call.now
       /\ LET r == Run(call.tables, now, h, fail)
          IN  call' = [call EXCEPT !.runs = 2, !.now = now,
                                   !.errs = Append(@, r.err), !.tables = r.tables]
  /\ UNCHANGED << db, tx, lock, settled, pc, event, ticketsCreated, outcome,
                  response, request >>

NextSeeds == CallRun \/ CallRunAgain

SpecSeeds == Init /\ [][NextSeeds]_vars

(***************************************************************************)
(* C38 as stated.  After seeds.Run has run twice in a row without error,   *)
(* the seeded tables are exactly what they were after the first run, no    *)
(* order, order item or ticket remains, and every lot's available equals   *)
(* its total.                                                              *)
(***************************************************************************)
C38_RunTwiceSameState ==
  (call.fn = "seeds.Run" /\ call.runs = 2 /\ call.errs = << FALSE, FALSE >>) =>
    /\ call.tables = call.once
    /\ call.tables["orders"] = {} /\ call.tables["order_items"] = {}
    /\ call.tables["tickets"] = {}
    /\ \A l \in call.tables["lots"] : l.available_quantity = l.total_quantity

(***************************************************************************)
(* C38, amended.  After each run of seeds.Run that returns no error, from  *)
(* any database, no order, order item or ticket remains, every lot's       *)
(* available equals its total and every sold counter is 0; and after two   *)
(* such runs in a row the seeded tables hold the same rows as after the    *)
(* first, equal in every column but those that carry the time of the run   *)
(* (created_at, updated_at, lots.starts_at) and users.password_hash.       *)
(***************************************************************************)
C38_RunTwiceSameSeed ==
  LET Stable(r) ==
        [c \in DOMAIN r \ {"created_at", "updated_at", "starts_at", "password_hash"}
           |-> r[c]]
      StableRows(d) == [t \in DOMAIN d |-> { Stable(r) : r \in d[t] }]
  IN  (call.fn = "seeds.Run" /\ \A k \in DOMAIN call.errs : ~call.errs[k]) =>
        /\ call.tables["orders"] = {} /\ call.tables["order_items"] = {}
        /\ call.tables["tickets"] = {}
        /\ call.tables["lots"] # {}
        /\ \A l \in call.tables["lots"] : l.available_quantity = l.total_quantity
        /\ \A t \in call.tables["ticket_types"] : t.sold_quantity = 0
        /\ call.runs = 2 => StableRows(call.tables) = StableRows(call.once)

\* Two runs without error, the second a second later than the first, which
\* was started on the database with a fulfilled order
C38_Witness ==
  /\ call.fn = "seeds.Run" /\ call.runs = 2 /\ call.errs = << FALSE, FALSE >>
  /\ call.tables # call.once
  /\ call.tables["tickets"] = {}
  /\ \E l \in call.tables["lots"] :
       l.id = "seed-lot-1a" /\ l.available_quantity = 3000 /\ l.starts_at = MaxSeedTime

==============================================================================
